---- MODULE Spec2Model ----
(***************************************************************************)
(* A model of the storage core of the conduit homeserver: the global       *)
(* counter (database/globals.rs, utils.rs), the per-prefix watchers of the *)
(* sqlite tree abstraction (database/abstraction/sqlite.rs), the           *)
(* compacted state-diff store and the migration runner (database.rs) and   *)
(* the account data store (database/account_data.rs).                      *)
(*                                                                         *)
(* Each subsystem has its own specification (SpecCounter, SpecWatch, ...)  *)
(* over the shared variables; a specification leaves the variables of the  *)
(* other subsystems unchanged.                                             *)
(***************************************************************************)
EXTENDS Integers, Sequences, FiniteSets, TLC

VARIABLES
    ruma, \* history: the last request that went through Ruma::from_data and what came of it
    other_tree, \* the rows of a second table
    other_watchers, \* the watcher registry of a second table: prefix -> the senders pushed under it
    wk, \* per streaming iterator: its worker thread, its channel, its receiver
    upd, \* per thread: where it is in AccountData::update, what it holds, its last call
    regs, \* per register request: where it is in register_route, what it keeps, its answer
    rl, \* per thread: where it is in Pool::read_lock, and the connection it holds
    pool_readers, \* Pool.readers: per pooled reader the thread that holds its mutex, 0 if none
    cs,         \* history: the last call of AccountData::changes_since
    md,         \* history: the uploads so far and the last call on Media
    allow_registration, \* Config: registration is enabled
    userid_password, \* users: user id -> stored password
    userdeviceid_token, \* users: <<user, device>> -> access token
    token_userdeviceid, \* users: access token -> <<user, device>>
    deactivated, \* users: the accounts that carry the deactivation marker
    uiaa_sessions, \* uiaa: the persisted sessions <<user, device, session>>
    memberships, \* rooms: the <<user, room>> the user has joined or is invited to
    leaves,     \* history: the <<user, room>> a leave event was appended for
    rq,         \* history: the last request of the account routes
    dbguard,    \* the TokioRwLock around Database: its readers and its writer
    userroomid_joined, \* rooms.userroomid_joined: the keys user 0xff room
    treewatchers, \* the watcher registries of all trees: <<tree, prefix, waiter>>
    dw,         \* per sync waiter: where its Database::watch call is
    dwn,        \* history: the numbers of inserts and of watch calls so far
    wal,        \* the WAL clean task
    shut,       \* the shutdown task and the process
    servertimeout_signingkey, \* Globals: origin 0xff valid_until -> [keys]
    now,        \* the system clock, in milliseconds since the epoch
    sk,         \* history: the last call on the signing-key cache
    counter,    \* globals tree, key "c": None or Some(bytes)
    returned,   \* history: the values next_count has returned, in call order
    panicked,   \* a thread died in `number + 1` (overflow checks enabled)
    tree,       \* one SqliteTable: the rows of its table, key -> value
    watchers,   \* SqliteTable.watchers: prefix -> Vec of oneshot senders
    rx,         \* per future of watch_prefix: "unused", "pending", "done"
    ipc,        \* per thread: where it is inside SqliteTable::insert
    ikey,       \* per thread: the key of the insert it is running
    triggered,  \* per thread: the local `triggered` of its insert
    seen,       \* history: per thread, the futures on a prefix of its key
                \* that were registered when its insert committed
    wokenBy,    \* history: per future, the thread whose send completed it
    sent,       \* history: per future, how often send was called on its sender
    statediff,  \* shortstatehash_statediff: ShortStateHash -> row (u64 words)
    states,     \* history: states[h] is the resolved state stored under h
    written,    \* history: the keys the last update_shortstatehash_level
                \* call inserted, in order
    accountdata, \* roomuserdataid_accountdata: key -> [json, of]; `of` is
                \* history: the (room, user, type) the row was written for
    lastUpdate, \* history: the last AccountData::update call and its result
    version,    \* globals tree, key "version": the stored database version
    mpc,        \* where load_or_create is in its migration block
    mlog,       \* history: what this start has done, in order
    startVersion, \* history: the stored version this start began with
    lastFailed, \* history: the migration whose failure ended the previous
                \* start, 0 if none
    restarts,   \* number of starts after the first one
    roomid_shortstatehash, \* the rooms that have a current state (keys only)
    roomid_shortroomid,    \* room id -> short room id (8 bytes)
    shortroomid_roomid,    \* short room id -> room id
    pduid_pdu,  \* pdu id -> pdu
    tokenids,   \* search index: token id -> ""
    m7,         \* migration 6 -> 7: its position and locals; history:
                \* the counter and the two key trees before the migration
    stateid_shorteventid, \* the state store before version 6:
                \* <<ShortStateHash, short state key>> -> short event id
    m6,         \* migration 5 -> 6: its position and locals
    mediaid_file, \* media id -> file content ("" from version 3 on)
    files,      \* the media directory: path -> bytes of the file
    m3,         \* migration 2 -> 3: its position and locals; history:
                \* mediaid_file before the migration
    wlock,      \* Pool.writer: the thread that holds the mutex, 0 if none
    inc,        \* per thread: where it is inside SqliteTable::increment
    incr,       \* history: the values increment has returned, in order, and
                \* whether other writers run next to the increments
    it          \* one iterator of iter / iter_from: its query, the rows its
                \* thread has still to send and the rows received; history:
                \* the rows of the table when the query ran

counterVars == <<counter, returned, panicked>>

watchVars == <<tree, watchers, rx, ipc, ikey, triggered, seen, wokenBy, sent>>

stateVars == <<statediff, states, written>>

accountVars == <<accountdata, lastUpdate>>

migrationVars == <<version, mpc, mlog, startVersion, lastFailed, restarts>>

roomVars == <<roomid_shortstatehash, roomid_shortroomid, shortroomid_roomid, pduid_pdu, tokenids, m7>>

(* The variables of the subsystems below the migration runner. *)
legacyVars == <<stateid_shorteventid, m6>>

mediaVars == <<mediaid_file, files, m3>>

lockVars == <<wlock, inc, incr>>

iterVars == <<it>>

signingVars == <<servertimeout_signingkey, now, sk>>

(* The variables of the subsystems below the iterators. *)
syncVars == <<dbguard, userroomid_joined, treewatchers, dw, dwn, wal, shut>>

userVars == <<allow_registration, userid_password, userdeviceid_token, token_userdeviceid, deactivated, uiaa_sessions, memberships, leaves, rq>>

uploadVars == <<md>>

(* The variables of the subsystems below the uploads. *)
stepVars == <<ruma, other_tree, other_watchers, wk, upd, regs>>

lateVars == <<stepVars, rl, pool_readers, cs>>

(* What the steps of one of the late subsystems leave alone among them. *)
notRegsLate == <<ruma, other_tree, other_watchers, wk, upd, rl, pool_readers, cs>>

notUpdLate == <<ruma, other_tree, other_watchers, wk, regs, rl, pool_readers, cs>>

notWkLate == <<ruma, other_tree, other_watchers, upd, regs, rl, pool_readers, cs>>

notOtherLate == <<ruma, wk, upd, regs, rl, pool_readers, cs>>

notRumaLate == <<other_tree, other_watchers, wk, upd, regs, rl, pool_readers, cs>>

extraVars == <<signingVars, syncVars, userVars, uploadVars, lateVars>>

(* The variables of the subsystems above the signing keys. *)
baseVars == <<counterVars, watchVars, stateVars, accountVars, migrationVars, roomVars, legacyVars, mediaVars, lockVars, iterVars>>

notSigningVars == <<baseVars, syncVars, userVars, uploadVars, lateVars>>

notSyncVars == <<baseVars, signingVars, userVars, uploadVars, lateVars>>

(* What the account routes leave alone: all but the users' tables, the     *)
(* counter and the account data.                                           *)
belowUserVars == <<returned, panicked, watchVars, stateVars, lastUpdate, migrationVars, roomVars, legacyVars, mediaVars, lockVars, iterVars, signingVars, syncVars, uploadVars>>

notUserVars == <<belowUserVars, lateVars>>

(* What Media::create and Media::get leave alone. *)
notUploadVars == <<counterVars, watchVars, stateVars, accountVars, migrationVars, roomVars, legacyVars, files, m3, lockVars, iterVars, signingVars, syncVars, userVars, lateVars>>

notLateVars == <<baseVars, signingVars, syncVars, userVars, uploadVars>>

moreVars == <<roomVars, legacyVars, mediaVars, lockVars, iterVars, extraVars>>

vars == <<ruma, other_tree, other_watchers, wk, upd, regs, rl, pool_readers, cs, md, allow_registration, userid_password, userdeviceid_token, token_userdeviceid,
          deactivated, uiaa_sessions, memberships, leaves, rq,
          dbguard, userroomid_joined, treewatchers, dw, dwn, wal, shut,
          servertimeout_signingkey, now, sk,
          counter, returned, panicked,
          tree, watchers, rx, ipc, ikey, triggered, seen, wokenBy, sent,
          statediff, states, written, accountdata, lastUpdate,
          version, mpc, mlog, startVersion, lastFailed, restarts,
          roomid_shortstatehash, roomid_shortroomid, shortroomid_roomid,
          pduid_pdu, tokenids, m7, stateid_shorteventid, m6,
          mediaid_file, files, m3, wlock, inc, incr, it>>

(* What the actions of one subsystem leave alone. *)
notCounterVars == <<watchVars, stateVars, accountVars, migrationVars, moreVars>>

notWatchVars == <<counterVars, stateVars, accountVars, migrationVars, moreVars>>

notStateVars == <<counterVars, watchVars, accountVars, migrationVars, moreVars>>

notAccountVars == <<returned, panicked, watchVars, stateVars, migrationVars, moreVars>>

notMigrationVars == <<counterVars, watchVars, stateVars, accountVars, moreVars>>

notMigrate7Vars == <<returned, panicked, watchVars, stateVars, accountVars, mpc, mlog, startVersion, lastFailed, restarts, legacyVars, mediaVars, lockVars, iterVars, extraVars>>

notIncrementVars == <<counterVars, watchers, rx, ipc, ikey, triggered, seen, wokenBy, sent, stateVars, accountVars, migrationVars, roomVars, legacyVars, mediaVars, iterVars, extraVars>>

notIterVars == <<counterVars, watchVars, stateVars, accountVars, migrationVars, roomVars, legacyVars, mediaVars, lockVars, extraVars>>

notMigrate3Vars == <<counterVars, watchVars, stateVars, accountVars, mpc, mlog, startVersion, lastFailed, restarts, roomVars, legacyVars, lockVars, iterVars, extraVars>>

notMigrate6Vars == <<counterVars, watchVars, states, written, accountVars, mpc, mlog, startVersion, lastFailed, restarts, roomVars, mediaVars, lockVars, iterVars, extraVars>>

-----------------------------------------------------------------------------
(* Option<T> is a sequence of length 0 (None) or 1 (Some(x)). *)
None == <<>>

Some(x) == <<x>>

(* The separator byte of composite keys. *)
SEP == 255

-----------------------------------------------------------------------------
(* 64-bit unsigned integers.  TLC's integers are 32 bits wide, so a u64 is  *)
(* held as four 16-bit limbs, most significant first; arithmetic is done   *)
(* on the limbs modulo 2^16 with carry, i.e. modulo 2^64 on the number.    *)
LIMB == 65536

U64Zero == <<0, 0, 0, 0>>

U64One == <<0, 0, 0, 1>>

U64Max == <<LIMB - 1, LIMB - 1, LIMB - 1, LIMB - 1>>

(* u64::from_be_bytes on an 8-byte array *)
from_be_bytes(b) == [i \in 1..4 |-> b[2 * i - 1] * 256 + b[2 * i]]

(* u64::to_be_bytes *)
to_be_bytes(n) ==
    [i \in 1..8 |-> IF i % 2 = 1 THEN n[(i + 1) \div 2] \div 256
                                 ELSE n[i \div 2] % 256]

(* n + 1 modulo 2^64 *)
RECURSIVE WrappingInc(_)
WrappingInc(n) ==
    IF n = <<>> THEN <<>>
    ELSE IF n[Len(n)] + 1 < LIMB
         THEN [n EXCEPT ![Len(n)] = @ + 1]
         ELSE WrappingInc(SubSeq(n, 1, Len(n) - 1)) \o <<0>>

(* a < b on u64 *)
RECURSIVE U64Less(_, _)
U64Less(a, b) ==
    IF a = <<>> THEN FALSE
    ELSE IF a[1] # b[1] THEN a[1] < b[1]
    ELSE U64Less(Tail(a), Tail(b))

(* utils::u64_from_bytes: Err for a slice whose length is not 8 *)
u64_from_bytes(bytes) ==
    IF Len(bytes) = 8 THEN Some(from_be_bytes(bytes)) ELSE None

(* `number + 1` of utils::increment overflows (old holds u64::MAX) *)
IncrementOverflows(old) ==
    /\ old # None
    /\ Len(old[1]) = 8
    /\ from_be_bytes(old[1]) = U64Max

(* utils::increment, in a build without overflow checks: Some(bytes) *)
increment(old) ==
    LET number ==
            IF old # None /\ Len(old[1]) = 8
            THEN WrappingInc(from_be_bytes(old[1]))
            ELSE U64One
    IN  Some(to_be_bytes(number))

-----------------------------------------------------------------------------
(* Globals::next_count.  update_and_fetch is one atomic step of the tree.  *)
(* On overflow of `number + 1` the build decides: it wraps (release) or    *)
(* the calling thread panics (overflow checks on) and nothing is stored.   *)
MaxCalls == 4

Callers == {1, 2}

(* Stored contents of the counter key the database may start with. *)
CounterInits ==
    {None,
     Some(<<>>),
     Some(<<0, 0, 7>>),
     Some(to_be_bytes(U64Zero)),
     Some(<<0, 0, 0, 0, 0, 0, 0, 255>>),
     Some(<<0, 0, 0, 0, 0, 0, 255, 255>>),
     Some(<<255, 255, 255, 255, 255, 255, 255, 253>>),
     Some(<<255, 255, 255, 255, 255, 255, 255, 254>>),
     Some(to_be_bytes(U64Max))}

next_count_ok(c) ==
    /\ ~panicked
    /\ Len(returned) < MaxCalls
    /\ counter' = increment(counter)
    /\ returned' = Append(returned, [caller |-> c,
                                     value |-> u64_from_bytes(counter'[1])[1]])
    /\ UNCHANGED <<panicked, notCounterVars>>

next_count_panic(c) ==
    /\ ~panicked
    /\ Len(returned) < MaxCalls
    /\ IncrementOverflows(counter)
    /\ panicked' = TRUE
    /\ UNCHANGED <<counter, returned, notCounterVars>>

next_count(c) == next_count_ok(c) \/ next_count_panic(c)

-----------------------------------------------------------------------------
(* SqliteTable: insert, remove and watch_prefix of one tree.                *)
(* Keys and prefixes are byte strings.                                      *)
TreeKeys == {<<1>>, <<1, 2>>, <<2>>}

TreeValues == {<<7>>}

Threads == {1, 2}

Futures == {1, 2}

(* key[..length] *)
Slice(key, length) == SubSeq(key, 1, length)

(* slice::starts_with *)
starts_with(key, prefix) ==
    /\ Len(prefix) <= Len(key)
    /\ Slice(key, Len(prefix)) = prefix

(* The prefixes a future may watch: every prefix of a key of the tree. *)
WatchPrefixes == UNION {{Slice(k, n) : n \in 0..Len(k)} : k \in TreeKeys}

(* The threads that call increment. *)
IncThreads == {1, 2, 3}

(* Mutant: the writer connection is handed out while another thread has it. *)
write_lock_shared(holder) == TRUE

(* Pool::write_lock: self.writer.lock() returns once no thread holds the    *)
(* mutex.                                                                   *)
write_lock(holder) == holder = 0

(* SqliteTable::get_with_guard: SELECT value .. WHERE key = ?, optional *)
get_with_guard(t, key) == IF key \in DOMAIN t THEN Some(t[key]) ELSE None

(* SqliteTable::insert_with_guard: INSERT .. ON CONFLICT DO UPDATE *)
insert_with_guard(t, key, value) ==
    [k \in DOMAIN t \cup {key} |-> IF k = key THEN value ELSE t[k]]

(* DELETE FROM .. WHERE key = ? *)
delete_row(t, key) == [k \in DOMAIN t \ {key} |-> t[k]]

(* insert, lines 276-280: the prefixes of key that have an entry in the    *)
(* registry, by ascending length.                                          *)
RECURSIVE TriggeredFrom(_, _, _)
TriggeredFrom(reg, key, length) ==
    IF length > Len(key) THEN <<>>
    ELSE (IF Slice(key, length) \in DOMAIN reg
          THEN <<Slice(key, length)>> ELSE <<>>)
         \o TriggeredFrom(reg, key, length + 1)

(* Mutant: the loop runs over 0..key.len(), exclusive of the key itself. *)
Triggered_exclusiveRange(reg, key) ==
    SelectSeq(TriggeredFrom(reg, key, 0), LAMBDA p : p # key)

Triggered(reg, key) == TriggeredFrom(reg, key, 0)

(* Mutant: the senders are read from the registry and stay in it (a key    *)
(* of two bytes has three prefixes).                                       *)
TakeWatchers_keep(reg, prefixes) ==
    <<reg, IF prefixes = <<>> THEN <<>>
           ELSE (IF Head(prefixes) \in DOMAIN reg THEN reg[Head(prefixes)] ELSE <<>>)
                \o (IF Len(prefixes) > 1 /\ prefixes[2] \in DOMAIN reg
                    THEN reg[prefixes[2]] ELSE <<>>)
                \o (IF Len(prefixes) > 2 /\ prefixes[3] \in DOMAIN reg
                    THEN reg[prefixes[3]] ELSE <<>>)>>

(* insert, lines 286-292: remove every triggered prefix from the registry; *)
(* the result is <<registry, senders taken>>.                              *)
RECURSIVE TakeWatchers(_, _)
TakeWatchers(reg, prefixes) ==
    IF prefixes = <<>> THEN <<reg, <<>>>>
    ELSE LET p    == Head(prefixes)
             txs  == IF p \in DOMAIN reg THEN reg[p] ELSE <<>>
             rest == TakeWatchers([q \in DOMAIN reg \ {p} |-> reg[q]],
                                  Tail(prefixes))
         IN  <<rest[1], txs \o rest[2]>>

Range(seq) == {seq[i] : i \in DOMAIN seq}

(* Mutant: every pending receiver completes when a sender is sent to. *)
SendAll_everyone(r, txs) ==
    [f \in DOMAIN r |->
        IF txs # <<>> /\ r[f] = "pending" THEN "done" ELSE r[f]]

(* tx.send(()) on every sender of txs: a pending receiver completes. *)
SendAll(r, txs) ==
    [f \in DOMAIN r |->
        IF f \in Range(txs) /\ r[f] = "pending" THEN "done" ELSE r[f]]

(* The futures registered on a prefix of key. *)
RegisteredOn(reg, key) ==
    {f \in Futures : \E p \in DOMAIN reg :
        starts_with(key, p) /\ f \in Range(reg[p])}

(* watch_prefix: push a fresh sender under the prefix (write lock held). *)
watch_prefix(f, prefix) ==
    /\ rx[f] = "unused"
    /\ watchers' = [p \in DOMAIN watchers \cup {prefix} |->
                      IF p \in DOMAIN watchers
                      THEN (IF p = prefix THEN Append(watchers[p], f)
                                          ELSE watchers[p])
                      ELSE <<f>>]
    /\ rx' = [rx EXCEPT ![f] = "pending"]
    /\ UNCHANGED <<tree, ipc, ikey, triggered, seen, wokenBy, sent, notWatchVars>>

(* insert, lines 260-271: the row is written under the writer lock. *)
insert_commit(t, key, value) ==
    /\ ipc[t] = "idle"
    /\ inc[t].pc = "idle"
    /\ write_lock(wlock)
    /\ tree' = insert_with_guard(tree, key, value)
    /\ ipc' = [ipc EXCEPT ![t] = "committed"]
    /\ ikey' = [ikey EXCEPT ![t] = key]
    /\ seen' = [seen EXCEPT ![t] = RegisteredOn(watchers, key)]
    /\ UNCHANGED <<watchers, rx, triggered, wokenBy, sent, notWatchVars>>

(* insert, lines 273-282: the read phase over the registry. *)
insert_read(t) ==
    /\ ipc[t] = "committed"
    /\ triggered' = [triggered EXCEPT ![t] = Triggered(watchers, ikey[t])]
    /\ ipc' = [ipc EXCEPT ![t] = "read"]
    /\ UNCHANGED <<tree, watchers, rx, ikey, seen, wokenBy, sent, notWatchVars>>

(* insert, lines 284-295: the removal phase, and the return. *)
insert_fire(t) ==
    /\ ipc[t] = "read"
    /\ LET taken == TakeWatchers(watchers, triggered[t])
       IN  /\ watchers' = IF triggered[t] = <<>> THEN watchers ELSE taken[1]
           /\ rx' = SendAll(rx, taken[2])
           /\ wokenBy' = [f \in Futures |->
                            IF rx[f] = "pending" /\ rx'[f] = "done"
                            THEN [by |-> t, early |-> f \in seen[t]]
                            ELSE wokenBy[f]]
           /\ sent' = [f \in Futures |->
                          sent[f] + Cardinality({i \in DOMAIN taken[2] : taken[2][i] = f})]
    /\ ipc' = [ipc EXCEPT ![t] = "idle"]
    /\ triggered' = [triggered EXCEPT ![t] = <<>>]
    /\ ikey' = [ikey EXCEPT ![t] = <<>>]
    /\ seen' = [seen EXCEPT ![t] = {}]
    /\ UNCHANGED <<tree, notWatchVars>>

(* remove, lines 298-316: the row is deleted under the writer lock; the    *)
(* registry is not touched.                                                *)
remove(t, key) ==
    /\ ipc[t] = "idle"
    /\ inc[t].pc = "idle"
    /\ write_lock(wlock)
    /\ tree' = delete_row(tree, key)
    /\ UNCHANGED <<watchers, rx, ipc, ikey, triggered, seen, wokenBy, sent, notWatchVars>>

(* The future of watch_prefix is dropped before it completed (the task     *)
(* that awaits it is cancelled): its receiver is gone.  watch_prefix,      *)
(* lines 408-411, leaves nothing that would touch the registry.            *)
drop_future(f) ==
    /\ rx[f] = "pending"
    /\ rx' = [rx EXCEPT ![f] = "dropped"]
    /\ UNCHANGED <<tree, watchers, ipc, ikey, triggered, seen, wokenBy, sent, notWatchVars>>

InitWatchVars ==
    /\ tree = <<>>
    /\ watchers = <<>>
    /\ rx = [f \in Futures |-> "unused"]
    /\ ipc = [t \in Threads |-> "idle"]
    /\ ikey = [t \in Threads |-> <<>>]
    /\ triggered = [t \in Threads |-> <<>>]
    /\ seen = [t \in Threads |-> {}]
    /\ wokenBy = [f \in Futures |-> [by |-> 0, early |-> FALSE]]
    /\ sent = [f \in Futures |-> 0]

-----------------------------------------------------------------------------
(* The state store (database.rs, lines 460-637 and 654-689, 713).           *)
(* A row of shortstatehash_statediff is a sequence of 8-byte big-endian     *)
(* words: the parent, the added entries (two words each: short state key,   *)
(* short event id), and, if there are removed entries, a zero word and the  *)
(* removed entries.                                                         *)
StateKeys == {1, 2}

EventIds == {1, 2}

MaxWrites == 5

(* Two states of a room that has a third state key. *)
WiderStates == {{<<1, 1>>, <<3, 1>>}, {<<1, 1>>, <<2, 1>>, <<3, 2>>}}

(* The resolved states: each state key decided by at most one event. *)
ResolvedStates ==
    {S \in SUBSET (StateKeys \X EventIds) :
        \A a, b \in S : a[1] = b[1] => a = b}

(* The entries of a HashSet written one after the other (in an order the   *)
(* set fixes; the reader does not depend on it).                           *)
RECURSIVE Concat(_)
Concat(S) ==
    IF S = {} THEN <<>>
    ELSE LET x == CHOOSE y \in S :
                    \A z \in S : y[1] < z[1] \/ (y[1] = z[1] /\ y[2] <= z[2])
         IN  x \o Concat(S \ {x})

(* load_shortstatehash_info, lines 491-508: the scan of a row from word i  *)
(* on; the result is <<added, removed>>.                                   *)
RECURSIVE ParseDiff(_, _, _, _, _)
ParseDiff(value, i, add_mode, added, removed) ==
    IF i + 1 > Len(value) THEN <<added, removed>>
    ELSE LET v == <<value[i], value[i + 1]>>
         IN  IF add_mode /\ v[1] = 0
             THEN ParseDiff(value, i + 1, FALSE, added, removed)
             ELSE IF add_mode
                  THEN ParseDiff(value, i + 2, add_mode, added \cup {v}, removed)
                  ELSE ParseDiff(value, i + 2, add_mode, added, removed \cup {v})

Last(seq) == seq[Len(seq)]

Front(seq) == SubSeq(seq, 1, Len(seq) - 1)

(* load_shortstatehash_info, lines 480-528, on the rows of `table`.  The   *)
(* result lists the layers from the root to shortstatehash.  `fuel` bounds *)
(* the walk over the parents by the number of rows (a walk that needs more *)
(* never returns in the code).  The LRU only memoises this result.         *)
RECURSIVE LoadInfo(_, _, _)
LoadInfo(shortstatehash, table, fuel) ==
    LET value  == table[shortstatehash]
        parent == value[1]
        diff   == ParseDiff(value, 2, TRUE, {}, {})
    IN  IF parent # 0 /\ parent \in DOMAIN table /\ fuel > 0
        THEN LET response == LoadInfo(parent, table, fuel - 1)
                 state    == (Last(response).full \cup diff[1]) \ diff[2]
             IN  Append(response, [hash |-> shortstatehash, full |-> state,
                                   added |-> diff[1], removed |-> diff[2]])
        ELSE <<[hash |-> shortstatehash, full |-> diff[1],
                added |-> diff[1], removed |-> diff[2]]>>

load_shortstatehash_info(shortstatehash, table) ==
    LoadInfo(shortstatehash, table, Cardinality(DOMAIN table))

(* update_shortstatehash_level, lines 550-558 and 599-608: the diff folded *)
(* into the diff of the popped parent layer.                               *)
FoldIntoParent(parent, statediffnew, statediffremoved) ==
    [new     |-> (parent.added \ statediffremoved) \cup statediffnew,
     removed |-> parent.removed \cup (statediffremoved \ parent.added)]

(* Mutant: one layer more is let through. *)
TooManyLayers_offByOne(parent_states) == Len(parent_states) > 4

(* line 545 *)
TooManyLayers(parent_states) == Len(parent_states) > 3

(* Mutant: a diff on the threshold is still attached. *)
DiffTooBig_strict(diffsum, diff_to_sibling, parent_diff) == diffsum * diffsum > 2 * diff_to_sibling * parent_diff

(* line 597 *)
DiffTooBig(diffsum, diff_to_sibling, parent_diff) ==
    diffsum * diffsum >= 2 * diff_to_sibling * parent_diff

(* lines 574-577: the row of a new root *)
RootRow(statediffnew) == <<0>> \o Concat(statediffnew)

(* Mutant: the row names the new hash itself, not the parent layer. *)
ChildRow_parentIsSelf(current_shortstatehash, parent, statediffnew, statediffremoved) ==
    <<current_shortstatehash>> \o Concat(statediffnew)
        \o (IF statediffremoved # {}
            THEN <<0>> \o Concat(statediffremoved) ELSE <<>>)

(* lines 619-629: the row of a layer on top of parent *)
ChildRow(current_shortstatehash, parent, statediffnew, statediffremoved) ==
    <<parent.hash>> \o Concat(statediffnew)
        \o (IF statediffremoved # {}
            THEN <<0>> \o Concat(statediffremoved) ELSE <<>>)

(* update_shortstatehash_level, lines 530-637.  The result is the sequence *)
(* of the inserts into shortstatehash_statediff the call performs, each    *)
(* <<key, value>>.                                                         *)
RECURSIVE update_shortstatehash_level(_, _, _, _, _)

(* Mutant: a diff that is too big is folded into the parent's row in       *)
(* place, and the new hash becomes an empty layer on top of it.            *)
update_shortstatehash_level_inPlace(current_shortstatehash, statediffnew, statediffremoved, diff_to_sibling, parent_states) ==
    LET diffsum == Cardinality(statediffnew) + Cardinality(statediffremoved)
    IN  IF Len(parent_states) = 0
        THEN <<<<current_shortstatehash, RootRow(statediffnew)>>>>
        ELSE LET parent      == Last(parent_states)
                 parent_diff == Cardinality(parent.added)
                                    + Cardinality(parent.removed)
                 folded      == FoldIntoParent(parent, statediffnew,
                                               statediffremoved)
             IN  IF /\ DiffTooBig(diffsum, diff_to_sibling, parent_diff)
                    /\ Len(parent_states) > 1
                 THEN <<<<parent.hash,
                          ChildRow(parent.hash,
                                   parent_states[Len(parent_states) - 1],
                                   folded.new, folded.removed)>>,
                        <<current_shortstatehash,
                          ChildRow(current_shortstatehash, parent, {}, {})>>>>
                 ELSE <<<<current_shortstatehash,
                          ChildRow(current_shortstatehash, parent,
                                   statediffnew, statediffremoved)>>>>

update_shortstatehash_level(current_shortstatehash, statediffnew, statediffremoved, diff_to_sibling, parent_states) ==
    LET diffsum == Cardinality(statediffnew) + Cardinality(statediffremoved)
    IN  IF TooManyLayers(parent_states)
        THEN LET folded == FoldIntoParent(Last(parent_states), statediffnew,
                                          statediffremoved)
             IN  update_shortstatehash_level(current_shortstatehash, folded.new,
                     folded.removed, diffsum, Front(parent_states))
        ELSE IF Len(parent_states) = 0
        THEN <<<<current_shortstatehash, RootRow(statediffnew)>>>>
        ELSE LET parent      == Last(parent_states)
                 parent_diff == Cardinality(parent.added)
                                    + Cardinality(parent.removed)
             IN  IF DiffTooBig(diffsum, diff_to_sibling, parent_diff)
                 THEN LET folded == FoldIntoParent(parent, statediffnew,
                                                   statediffremoved)
                      IN  update_shortstatehash_level(current_shortstatehash,
                              folded.new, folded.removed, diffsum,
                              Front(parent_states))
                 ELSE <<<<current_shortstatehash,
                          ChildRow(current_shortstatehash, parent,
                                   statediffnew, statediffremoved)>>>>

(* The inserts of a call applied to the tree, in order. *)
RECURSIVE ApplyInserts(_, _)
ApplyInserts(table, inserts) ==
    IF inserts = <<>> THEN table
    ELSE ApplyInserts(insert_with_guard(table, Head(inserts)[1], Head(inserts)[2]),
                      Tail(inserts))

(* One state of the room stored on top of the previous one, as lines       *)
(* 654-689 and 713 do for each state of a room: the parent chain is loaded *)
(* for the room's last hash, the diff is taken against its full state, and *)
(* the initial sibling gap is 2.  Hashes are handed out in order.          *)
store_state(current_state) ==
    /\ Len(states) < MaxWrites
    /\ states # <<>> => current_state # Last(states)
    /\ LET current_sstatehash == Len(states) + 1
           states_parents ==
               IF states = <<>> THEN <<>>
               ELSE load_shortstatehash_info(Len(states), statediff)
           statediffnew ==
               IF states_parents # <<>>
               THEN current_state \ Last(states_parents).full
               ELSE current_state
           statediffremoved ==
               IF states_parents # <<>>
               THEN Last(states_parents).full \ current_state
               ELSE {}
           inserts ==
               update_shortstatehash_level(current_sstatehash, statediffnew,
                   statediffremoved, 2, states_parents)
       IN  /\ statediff' = ApplyInserts(statediff, inserts)
           /\ written' = [i \in DOMAIN inserts |-> inserts[i][1]]
    /\ states' = Append(states, current_state)
    /\ UNCHANGED notStateVars

InitStateVars ==
    /\ statediff = <<>>
    /\ states = <<>>
    /\ written = <<>>

-----------------------------------------------------------------------------
(* Account data (database/account_data.rs).  Keys are byte strings:         *)
(* room 0xff user 0xff count 0xff type, the count 8 bytes big-endian.       *)
MaxUpdates == 3

(* room_id: Option<&RoomId>, as the bytes of its string ("!") *)
RoomIds == {None, Some(<<33>>)}

(* user ids "@" and "@a", event types "m" and "mn" *)
UserIds == {<<64>>, <<64, 97>>}

EventTypes == {<<109>>, <<109, 110>>}

(* The (room, user, type) triples the calls are made for. *)
AccountTriples ==
    {<<None, <<64>>, <<109>>>>, <<None, <<64>>, <<109, 110>>>>,
     <<None, <<64, 97>>, <<109>>>>, <<Some(<<33>>), <<64>>, <<109>>>>}

(* The serialized values: whether the JSON object has a "type" and a       *)
(* "content" field, and the rest of it.                                    *)
AccountValues ==
    {[type |-> TRUE, content |-> TRUE, body |-> 1],
     [type |-> TRUE, content |-> TRUE, body |-> 2],
     [type |-> TRUE, content |-> FALSE, body |-> 1],
     [type |-> FALSE, content |-> TRUE, body |-> 2]}

(* lines 26-33, 130-137: room (or "") 0xff user 0xff *)
AccountPrefix(room_id, user_id) ==
    (IF room_id = None THEN <<>> ELSE room_id[1]) \o <<SEP>> \o user_id \o <<SEP>>

(* a < b in the byte order of the tree *)
RECURSIVE BytesLess(_, _)
BytesLess(a, b) ==
    IF b = <<>> THEN FALSE
    ELSE IF a = <<>> THEN TRUE
    ELSE IF a[1] # b[1] THEN a[1] < b[1]
    ELSE BytesLess(Tail(a), Tail(b))

(* k.rsplit(|&b| b == 0xff).next(): the bytes after the last 0xff *)
RECURSIVE LastSegment(_)
LastSegment(k) ==
    IF k = <<>> THEN <<>>
    ELSE IF Last(k) = SEP THEN <<>>
    ELSE Append(LastSegment(Front(k)), Last(k))

(* Mutant: the type of a row is compared by prefix, not for equality. *)
TypeMatches_prefix(current_event_type, kind) ==
    starts_with(current_event_type, kind)

(* lines 148-150 *)
TypeMatches(current_event_type, kind) == current_event_type = kind

(* find_event, lines 124-156: the last row, in key order, under the prefix *)
(* whose type segment is `kind`; None or Some(key).                        *)
find_event(table, room_id, user_id, kind) ==
    LET found == {k \in DOMAIN table :
                     /\ starts_with(k, AccountPrefix(room_id, user_id))
                     /\ TypeMatches(LastSegment(k), kind)}
    IN  IF found = {} THEN None
        ELSE Some(CHOOSE k \in found : \A j \in found : j = k \/ BytesLess(j, k))

(* get, lines 61-73: None or Some(value) *)
get(table, room_id, user_id, kind) ==
    LET r == find_event(table, room_id, user_id, kind)
    IN  IF r = None THEN None ELSE Some(table[r[1]].json)

(* update, lines 18-58, on a table and a counter.  The previous row is     *)
(* removed (36-39), the count is taken (42), then the value is checked     *)
(* (46-52) and inserted (54-55).                                           *)
update_rows(table, count_bytes, room_id, user_id, event_type, data) ==
    LET previous == find_event(table, room_id, user_id, event_type)
        removed  == IF previous = None THEN table
                    ELSE delete_row(table, previous[1])
        count    == u64_from_bytes(increment(count_bytes)[1])[1]
        key      == AccountPrefix(room_id, user_id) \o to_be_bytes(count)
                        \o <<SEP>> \o event_type
        ok       == data.type /\ data.content
    IN  [counter |-> increment(count_bytes),
         ok      |-> ok,
         table   |-> IF ok
                     THEN insert_with_guard(removed, key,
                              [json |-> data, of |-> <<room_id, user_id, event_type>>])
                     ELSE removed]

update(room_id, user_id, event_type, data) ==
    /\ lastUpdate.n < MaxUpdates
    /\ ~IncrementOverflows(counter)
    /\ LET r == update_rows(accountdata, counter, room_id, user_id, event_type, data)
       IN  /\ counter' = r.counter
           /\ accountdata' = r.table
           /\ lastUpdate' = [n |-> lastUpdate.n + 1, ok |-> r.ok,
                             of |-> <<room_id, user_id, event_type>>,
                             data |-> data]
    /\ UNCHANGED notAccountVars

InitAccountVars ==
    /\ accountdata = <<>>
    /\ lastUpdate = [n |-> 0, ok |-> FALSE, of |-> <<None, <<>>, <<>>>>,
                     data |-> [type |-> FALSE, content |-> FALSE, body |-> 0]]

-----------------------------------------------------------------------------
(* The migration block of Database::load_or_create (database.rs, lines      *)
(* 349-458 and 639-787).  The n-th `if` is migration n-1 -> n.  What the    *)
(* bodies write to their trees is not part of this section; a body either   *)
(* runs to its end or a tree operation in it returns an error, which `?`    *)
(* hands to the caller of load_or_create.                                   *)
MaxRestarts == 2

(* The migrations, by target version; line 781 bumps to the last one. *)
Migrations == 1..7

(* Globals::database_version: the integer stored under "version" *)
database_version == version

(* Mutant: the version test lets the stored version itself through. *)
NeedsMigration_orEqual(stored, n) == stored <= n

(* `db.globals.database_version()? < n`, lines 353, 376, 395, 413, 436,    *)
(* 639, 744                                                                *)
NeedsMigration(stored, n) == stored < n

At(n, phase) == [at |-> n, phase |-> phase]

Event(ev, n) == [ev |-> ev, n |-> n]

(* The `if` of migration n is not taken. *)
skip_migration(n) ==
    /\ mpc = At(n, "check")
    /\ ~NeedsMigration(database_version, n)
    /\ mpc' = At(n + 1, "check")
    /\ UNCHANGED <<version, mlog, startVersion, lastFailed, restarts>>
    /\ UNCHANGED notMigrationVars

(* The body of migration n runs to its end. *)
migration_body(n) ==
    /\ mpc = At(n, "check")
    /\ NeedsMigration(database_version, n)
    /\ mlog' = Append(mlog, Event("body", n))
    /\ mpc' = At(n, "bump")
    /\ UNCHANGED <<version, startVersion, lastFailed, restarts>>
    /\ UNCHANGED notMigrationVars

(* Mutant: the target version is stored before the body has finished. *)
migration_body_fails_versionWritten(n) ==
    /\ mpc = At(n, "check")
    /\ NeedsMigration(database_version, n)
    /\ version' = n
    /\ mlog' = Append(mlog, Event("fail", n))
    /\ mpc' = At(n, "failed")
    /\ UNCHANGED <<startVersion, lastFailed, restarts>>
    /\ UNCHANGED notMigrationVars

(* A tree operation of the body of migration n returns an error (`?`) or   *)
(* an unwrap in it panics: load_or_create is left before the bump.         *)
migration_body_fails(n) ==
    /\ mpc = At(n, "check")
    /\ NeedsMigration(database_version, n)
    /\ mlog' = Append(mlog, Event("fail", n))
    /\ mpc' = At(n, "failed")
    /\ UNCHANGED <<version, startVersion, lastFailed, restarts>>
    /\ UNCHANGED notMigrationVars

(* Globals::bump_database_version(n): the version is stored. *)
bump_database_version(n) ==
    /\ mpc = At(n, "bump")
    /\ version' = n
    /\ mlog' = Append(mlog, Event("bump", n))
    /\ mpc' = At(n + 1, "check")
    /\ UNCHANGED <<startVersion, lastFailed, restarts>>
    /\ UNCHANGED notMigrationVars

(* bump_database_version(n)? returns the error of its insert. *)
bump_database_version_fails(n) ==
    /\ mpc = At(n, "bump")
    /\ mlog' = Append(mlog, Event("fail", n))
    /\ mpc' = At(n, "failed")
    /\ UNCHANGED <<version, startVersion, lastFailed, restarts>>
    /\ UNCHANGED notMigrationVars

(* line 786: the block ends in panic!() *)
end_of_migrations ==
    /\ mpc = At(8, "check")
    /\ mpc' = At(8, "panic")
    /\ UNCHANGED <<version, mlog, startVersion, lastFailed, restarts>>
    /\ UNCHANGED notMigrationVars

(* The server is started again after the process has ended. *)
start_again ==
    /\ mpc.phase \in {"failed", "panic"}
    /\ restarts < MaxRestarts
    /\ restarts' = restarts + 1
    /\ lastFailed' = IF mpc.phase = "failed" THEN mpc.at ELSE 0
    /\ startVersion' = version
    /\ mlog' = <<>>
    /\ mpc' = At(1, "check")
    /\ UNCHANGED version
    /\ UNCHANGED notMigrationVars

InitMigrationVars ==
    /\ mpc = At(1, "check")
    /\ mlog = <<>>
    /\ startVersion = version
    /\ lastFailed = 0
    /\ restarts = 0

-----------------------------------------------------------------------------
(* Migration 6 -> 7 (database.rs, lines 744-784): a short room id for every *)
(* room of roomid_shortstatehash, then the loops over pduid_pdu and         *)
(* tokenids.  Every tree operation is a step; the migration can fail or the *)
(* process can die between any two of them, and the next start runs the     *)
(* migration from its beginning as long as the stored version is below 7.   *)
(* Tree.iter() has no ORDER BY: the rooms come in any order.                *)
MaxRuns == 2

(* room ids "!a" and "!b" *)
Rooms == {<<33, 97>>, <<33, 98>>}

Count1 == <<0, 0, 0, 0, 0, 0, 0, 1>>

(* pdu id before version 7: room id, 0xff, count *)
OldPduId(room_id, count) == room_id \o <<SEP>> \o count

(* token id before version 7: room id, 0xff, word, 0xff, pdu id *)
OldTokenId(room_id, word, count) ==
    room_id \o <<SEP>> \o word \o <<SEP>> \o OldPduId(room_id, count)

PduValues == {<<123>>}

Words == {<<119>>}

(* slice::splitn(n, |&b| b == 0xff): at most n parts, the last one holds   *)
(* the rest of the slice.                                                  *)
RECURSIVE splitn(_, _, _)
splitn(s, n, acc) ==
    IF n <= 1 \/ ~(\E i \in DOMAIN s : s[i] = SEP) THEN <<acc \o s>>
    ELSE IF Head(s) = SEP THEN <<acc>> \o splitn(Tail(s), n - 1, <<>>)
    ELSE splitn(Tail(s), n, Append(acc, Head(s)))

(* lines 753-760: the key the pduid loop computes for one old key, None    *)
(* when roomid_shortroomid.get(room_id) is None (the unwrap panics).       *)
NewPduId(r2s, key) ==
    LET parts == splitn(key, 2, <<>>)
    IN  IF parts[1] \in DOMAIN r2s THEN Some(r2s[parts[1]] \o parts[2])
        ELSE None

(* lines 767-777: the key the tokenids loop computes for one old key *)
NewTokenId(r2s, key) ==
    LET parts == splitn(key, 4, <<>>)
    IN  IF parts[1] \in DOMAIN r2s
        THEN Some(r2s[parts[1]] \o parts[2] \o <<SEP>> \o parts[4])
        ELSE None

(* `if database_version()? < 7`, line 744, at a start of the server *)
migrate7_start ==
    /\ m7.pc \in {"start", "failed"}
    /\ m7.pc = "failed" => m7.runs < MaxRuns
    /\ m7' = [m7 EXCEPT !.pc = IF NeedsMigration(database_version, 7)
                                THEN "rooms" ELSE "done",
                         !.todo = roomid_shortstatehash,
                         !.runs = IF m7.pc = "failed" THEN @ + 1 ELSE @]
    /\ UNCHANGED <<counter, version, roomid_shortstatehash, roomid_shortroomid, shortroomid_roomid, pduid_pdu, tokenids>>
    /\ UNCHANGED notMigrate7Vars

(* line 747: the iterator yields a room; next_count() *)
migrate7_next_count(room_id) ==
    /\ m7.pc = "rooms"
    /\ room_id \in m7.todo
    /\ ~IncrementOverflows(counter)
    /\ counter' = increment(counter)
    /\ m7' = [m7 EXCEPT !.pc = "insert1", !.room_id = room_id,
                         !.shortroomid = counter'[1]]
    /\ UNCHANGED <<version, roomid_shortstatehash, roomid_shortroomid, shortroomid_roomid, pduid_pdu, tokenids>>
    /\ UNCHANGED notMigrate7Vars

(* line 748 *)
migrate7_insert_roomid_shortroomid ==
    /\ m7.pc = "insert1"
    /\ roomid_shortroomid' = insert_with_guard(roomid_shortroomid, m7.room_id, m7.shortroomid)
    /\ m7' = [m7 EXCEPT !.pc = "insert2"]
    /\ UNCHANGED <<counter, version, roomid_shortstatehash, shortroomid_roomid, pduid_pdu, tokenids>>
    /\ UNCHANGED notMigrate7Vars

(* line 749, and the end of the loop body *)
migrate7_insert_shortroomid_roomid ==
    /\ m7.pc = "insert2"
    /\ shortroomid_roomid' = insert_with_guard(shortroomid_roomid, m7.shortroomid, m7.room_id)
    /\ m7' = [m7 EXCEPT !.pc = "rooms", !.todo = @ \ {m7.room_id}]
    /\ UNCHANGED <<counter, version, roomid_shortstatehash, roomid_shortroomid, pduid_pdu, tokenids>>
    /\ UNCHANGED notMigrate7Vars

(* lines 752-763: the loop over pduid_pdu computes and prints the new key  *)
(* of every entry; it calls neither insert nor remove.                     *)
migrate7_pduids ==
    /\ m7.pc = "rooms"
    /\ m7.todo = {}
    /\ m7' = [m7 EXCEPT !.pc =
                IF \A key \in DOMAIN pduid_pdu : NewPduId(roomid_shortroomid, key) # None
                THEN "tokenids" ELSE "failed"]
    /\ UNCHANGED <<counter, version, roomid_shortstatehash, roomid_shortroomid, shortroomid_roomid, pduid_pdu, tokenids>>
    /\ UNCHANGED notMigrate7Vars

(* lines 766-779: the same for tokenids *)
migrate7_tokenids ==
    /\ m7.pc = "tokenids"
    /\ m7' = [m7 EXCEPT !.pc =
                IF \A key \in DOMAIN tokenids : NewTokenId(roomid_shortroomid, key) # None
                THEN "bump" ELSE "failed"]
    /\ UNCHANGED <<counter, version, roomid_shortstatehash, roomid_shortroomid, shortroomid_roomid, pduid_pdu, tokenids>>
    /\ UNCHANGED notMigrate7Vars

(* line 781 *)
migrate7_bump ==
    /\ m7.pc = "bump"
    /\ version' = 7
    /\ m7' = [m7 EXCEPT !.pc = "done"]
    /\ UNCHANGED <<counter, roomid_shortstatehash, roomid_shortroomid, shortroomid_roomid, pduid_pdu, tokenids>>
    /\ UNCHANGED notMigrate7Vars

(* A tree operation returns an error (`?`), or the process dies. *)
migrate7_fail ==
    /\ m7.pc \in {"rooms", "insert1", "insert2", "tokenids", "bump"}
    /\ m7' = [m7 EXCEPT !.pc = "failed"]
    /\ UNCHANGED <<counter, version, roomid_shortstatehash, roomid_shortroomid, shortroomid_roomid, pduid_pdu, tokenids>>
    /\ UNCHANGED notMigrate7Vars

(* The trees of a server that does not run the migration. *)
InitRoomVars ==
    /\ roomid_shortstatehash = {}
    /\ roomid_shortroomid = <<>>
    /\ shortroomid_roomid = <<>>
    /\ pduid_pdu = <<>>
    /\ tokenids = <<>>
    /\ m7 = [pc |-> "off", todo |-> {}, room_id |-> <<>>, shortroomid |-> <<>>,
             runs |-> 0, counter0 |-> None, pduid0 |-> <<>>, tokenids0 |-> <<>>]

-----------------------------------------------------------------------------
(* Migration 5 -> 6 (database.rs, lines 639-742): the state store is       *)
(* rebuilt from stateid_shorteventid.  One step is one turn of the loop    *)
(* over the legacy tree.  Tree.iter() has no ORDER BY: the entries come in *)
(* any order.                                                              *)
LegacyHashes == {1, 2, 3}

(* short event ids; 1 and 2 are events of room "!a", 3 of room "!b" *)
LegacyEvents == {1, 2, 3}

(* lines 718-731: the room of the pdu of a short event id *)
RoomOfEvent(seventid) == IF seventid = 3 THEN <<33, 98>> ELSE <<33, 97>>

(* The legacy entries of one state: every state key decided by at most one *)
(* event, all events of one room.                                          *)
LegacyStates ==
    {S \in SUBSET (StateKeys \X LegacyEvents) :
        /\ \A a, b \in S : a[1] = b[1] => a = b
        /\ \A a, b \in S : RoomOfEvent(a[2]) = RoomOfEvent(b[2])}

(* The legacy tree that holds state S(h) under every hash h. *)
LegacyTree(S) ==
    [key \in {k \in LegacyHashes \X StateKeys : \E e \in S[k[1]] : e[1] = k[2]}
       |-> (CHOOSE e \in S[key[1]] : e[1] = key[2])[2]]

(* The entries stored under hash h of the legacy tree. *)
LegacyState(table, h) ==
    {<<key[2], table[key]>> : key \in {k \in DOMAIN table : k[1] = h}}

(* load_shortstatehash_info, lines 480-528, with its LRU: the result is    *)
(* the response, the LRU afterwards and whether the call returns at all    *)
(* (a walk that does not end overflows the stack).                         *)
RECURSIVE load_shortstatehash_info_lru(_, _, _, _)
load_shortstatehash_info_lru(shortstatehash, table, lru, fuel) ==
    IF shortstatehash \in DOMAIN lru
    THEN [response |-> lru[shortstatehash], lru |-> lru, ok |-> TRUE]
    ELSE IF fuel = 0 \/ shortstatehash \notin DOMAIN table
    THEN [response |-> <<>>, lru |-> lru, ok |-> FALSE]
    ELSE LET value  == table[shortstatehash]
             parent == value[1]
             diff   == ParseDiff(value, 2, TRUE, {}, {})
         IN  IF parent # 0
             THEN LET sub == load_shortstatehash_info_lru(parent, table, lru, fuel - 1)
                      state == (Last(sub.response).full \cup diff[1]) \ diff[2]
                      response == Append(sub.response,
                                      [hash |-> shortstatehash, full |-> state,
                                       added |-> diff[1], removed |-> diff[2]])
                  IN  IF sub.ok
                      THEN [response |-> response,
                            lru |-> insert_with_guard(sub.lru, shortstatehash, response),
                            ok |-> TRUE]
                      ELSE sub
             ELSE LET response == <<[hash |-> shortstatehash, full |-> diff[1],
                                     added |-> diff[1], removed |-> diff[2]]>>
                  IN  [response |-> response,
                       lru |-> insert_with_guard(lru, shortstatehash, response),
                       ok |-> TRUE]

(* `if database_version()? < 6`, line 639, and the locals of lines 641-646 *)
migrate6_start ==
    /\ m6.pc = "start"
    /\ m6' = [m6 EXCEPT !.pc = IF NeedsMigration(database_version, 6)
                                THEN "loop" ELSE "done",
                         !.todo = DOMAIN stateid_shorteventid]
    /\ UNCHANGED <<version, statediff, stateid_shorteventid>>
    /\ UNCHANGED notMigrate6Vars

(* lines 647-737: one turn of the loop, for the entry the iterator yields *)
migrate6_entry(k) ==
    /\ m6.pc = "loop"
    /\ k \in m6.todo
    /\ LET seventid == stateid_shorteventid[k]
           sstatehash == k[1]
           sstatekey == k[2]
           changed == sstatehash # m6.current_sstatehash
           flush == changed /\ m6.current_sstatehash # 0
           has_last == m6.current_room \in DOMAIN m6.last_roomstates
           loaded ==
               IF flush /\ has_last
               THEN load_shortstatehash_info_lru(m6.last_roomstates[m6.current_room],
                        statediff, m6.lru, Cardinality(DOMAIN statediff))
               ELSE [response |-> <<>>, lru |-> m6.lru, ok |-> TRUE]
           states_parents == loaded.response
           statediffnew ==
               IF states_parents # <<>>
               THEN m6.current_state \ Last(states_parents).full
               ELSE m6.current_state
           statediffremoved ==
               IF states_parents # <<>>
               THEN Last(states_parents).full \ m6.current_state
               ELSE {}
           inserts ==
               IF flush
               THEN update_shortstatehash_level(m6.current_sstatehash, statediffnew,
                        statediffremoved, 2, states_parents)
               ELSE <<>>
       IN  IF ~loaded.ok
           THEN /\ m6' = [m6 EXCEPT !.pc = "failed"]
                /\ UNCHANGED statediff
           ELSE /\ statediff' = ApplyInserts(statediff, inserts)
                /\ m6' = [m6 EXCEPT
                      !.todo = @ \ {k},
                      !.lru = loaded.lru,
                      !.last_roomstates =
                          IF flush
                          THEN insert_with_guard(@, m6.current_room, m6.current_sstatehash)
                          ELSE @,
                      !.current_state =
                          (IF changed THEN {} ELSE @) \cup {<<sstatekey, seventid>>},
                      !.current_sstatehash = sstatehash,
                      !.current_room =
                          IF changed THEN RoomOfEvent(seventid) ELSE @]
    /\ UNCHANGED <<version, stateid_shorteventid>>
    /\ UNCHANGED notMigrate6Vars

(* line 739: the loop has ended *)
migrate6_bump ==
    /\ m6.pc = "loop"
    /\ m6.todo = {}
    /\ version' = 6
    /\ m6' = [m6 EXCEPT !.pc = "done"]
    /\ UNCHANGED <<statediff, stateid_shorteventid>>
    /\ UNCHANGED notMigrate6Vars

InitLegacyVars ==
    /\ stateid_shorteventid = <<>>
    /\ m6 = [pc |-> "off", todo |-> {}, lru |-> <<>>, last_roomstates |-> <<>>,
             current_sstatehash |-> 0, current_room |-> <<>>, current_state |-> {}]

-----------------------------------------------------------------------------
(* Migration 2 -> 3 (database.rs, lines 395-411): the content of every      *)
(* entry of mediaid_file is moved to a file.  File::create, write_all and   *)
(* the insert are steps; each can fail, and the next start runs the         *)
(* migration again.  The iterator reads the tree as it was when the loop    *)
(* began (a read transaction of its own connection).                        *)
MediaKeys == {<<1>>, <<16>>}

MediaContents == {<<>>, <<80>>, <<80, 78>>}

(* The two hexadecimal digits of every byte. *)
RECURSIVE hex(_)
hex(bytes) ==
    IF bytes = <<>> THEN <<>>
    ELSE <<Head(bytes) \div 16, Head(bytes) % 16>> \o hex(Tail(bytes))

(* Globals::get_media_file: <database_path>/media/<hex of the key> *)
get_media_file(key) == hex(key)

(* Mutant: the loop does not pass over entries that are already empty. *)
IsMoved_never(content) == FALSE

(* line 398: content.is_empty() *)
IsMoved(content) == content = <<>>

(* `if database_version()? < 3`, line 395, at a start of the server *)
migrate3_start ==
    /\ m3.pc \in {"start", "failed"}
    /\ m3.pc = "failed" => m3.runs < MaxRuns
    /\ m3' = [m3 EXCEPT !.pc = IF NeedsMigration(database_version, 3)
                                THEN "loop" ELSE "done",
                         !.snapshot = mediaid_file,
                         !.todo = DOMAIN mediaid_file,
                         !.runs = IF m3.pc = "failed" THEN @ + 1 ELSE @]
    /\ UNCHANGED <<version, mediaid_file, files>>
    /\ UNCHANGED notMigrate3Vars

(* The body of the migration is run once more after it has completed. *)
migrate3_again ==
    /\ m3.pc = "done"
    /\ ~m3.again
    /\ m3' = [m3 EXCEPT !.pc = "loop", !.again = TRUE,
                         !.snapshot = mediaid_file,
                         !.todo = DOMAIN mediaid_file]
    /\ UNCHANGED <<version, mediaid_file, files>>
    /\ UNCHANGED notMigrate3Vars

(* lines 397-400: the iterator yields an entry that is empty *)
migrate3_continue(key) ==
    /\ m3.pc = "loop"
    /\ key \in m3.todo
    /\ IsMoved(m3.snapshot[key])
    /\ m3' = [m3 EXCEPT !.todo = @ \ {key}]
    /\ UNCHANGED <<version, mediaid_file, files>>
    /\ UNCHANGED notMigrate3Vars

(* lines 397-403: the iterator yields an entry with content; File::create  *)
(* makes the file or truncates it.                                         *)
migrate3_create(key) ==
    /\ m3.pc = "loop"
    /\ key \in m3.todo
    /\ ~IsMoved(m3.snapshot[key])
    /\ files' = insert_with_guard(files, get_media_file(key), <<>>)
    /\ m3' = [m3 EXCEPT !.pc = "write", !.key = key]
    /\ UNCHANGED <<version, mediaid_file>>
    /\ UNCHANGED notMigrate3Vars

(* line 404: file.write_all(&content) *)
migrate3_write_all ==
    /\ m3.pc = "write"
    /\ files' = insert_with_guard(files, get_media_file(m3.key), m3.snapshot[m3.key])
    /\ m3' = [m3 EXCEPT !.pc = "insert"]
    /\ UNCHANGED <<version, mediaid_file>>
    /\ UNCHANGED notMigrate3Vars

(* line 404: write_all fails after it has written a part of the content *)
migrate3_write_all_fails(n) ==
    /\ m3.pc = "write"
    /\ ~m3.again
    /\ n < Len(m3.snapshot[m3.key])
    /\ files' = insert_with_guard(files, get_media_file(m3.key), SubSeq(m3.snapshot[m3.key], 1, n))
    /\ m3' = [m3 EXCEPT !.pc = "failed"]
    /\ UNCHANGED <<version, mediaid_file>>
    /\ UNCHANGED notMigrate3Vars

(* line 405: mediaid_file.insert(&key, &[]) *)
migrate3_insert ==
    /\ m3.pc = "insert"
    /\ mediaid_file' = insert_with_guard(mediaid_file, m3.key, <<>>)
    /\ m3' = [m3 EXCEPT !.pc = "loop", !.todo = @ \ {m3.key}]
    /\ UNCHANGED <<version, files>>
    /\ UNCHANGED notMigrate3Vars

(* line 408: the loop has ended *)
migrate3_bump ==
    /\ m3.pc = "loop"
    /\ m3.todo = {}
    /\ version' = 3
    /\ m3' = [m3 EXCEPT !.pc = "done"]
    /\ UNCHANGED <<mediaid_file, files>>
    /\ UNCHANGED notMigrate3Vars

(* File::create or a tree operation returns an error, or the process dies. *)
migrate3_fail ==
    /\ m3.pc \in {"loop", "write", "insert"}
    /\ ~m3.again
    /\ m3' = [m3 EXCEPT !.pc = "failed"]
    /\ UNCHANGED <<version, mediaid_file, files>>
    /\ UNCHANGED notMigrate3Vars

InitMediaVars ==
    /\ mediaid_file = <<>>
    /\ files = <<>>
    /\ m3 = [pc |-> "off", todo |-> {}, snapshot |-> <<>>, key |-> <<>>,
             runs |-> 0, again |-> FALSE, before |-> <<>>]

-----------------------------------------------------------------------------
(* SqliteTable::increment (sqlite.rs, lines 357-377): the writer mutex is   *)
(* taken, the old value is read and the new one written on the writer       *)
(* connection, and the guard is dropped when the function returns.          *)
MaxIncrements == 3

IncKey == <<1>>

(* line 358 *)
increment_lock(t, key) ==
    /\ t \in Threads => ipc[t] = "idle"
    /\ inc[t].pc = "idle"
    /\ Len(incr.returned) + Cardinality({u \in IncThreads : inc[u].pc # "idle"}) < MaxIncrements
    /\ write_lock(wlock)
    /\ wlock' = t
    /\ inc' = [inc EXCEPT ![t] = [pc |-> "locked", key |-> key, old |-> None, new |-> None]]
    /\ UNCHANGED <<tree, incr>>
    /\ UNCHANGED notIncrementVars

(* line 362 *)
increment_get(t) ==
    /\ inc[t].pc = "locked"
    /\ inc' = [inc EXCEPT ![t].pc = "read",
                          ![t].old = get_with_guard(tree, inc[t].key)]
    /\ UNCHANGED <<tree, wlock, incr>>
    /\ UNCHANGED notIncrementVars

(* lines 364-367 *)
increment_insert(t) ==
    /\ inc[t].pc = "read"
    /\ ~IncrementOverflows(inc[t].old)
    /\ LET new == increment(inc[t].old)
       IN  /\ tree' = insert_with_guard(tree, inc[t].key, new[1])
           /\ inc' = [inc EXCEPT ![t].pc = "written", ![t].new = new]
    /\ UNCHANGED <<wlock, incr>>
    /\ UNCHANGED notIncrementVars

(* line 376: Ok(new); the guard goes out of scope *)
increment_return(t) ==
    /\ inc[t].pc = "written"
    /\ wlock' = IF wlock = t THEN 0 ELSE wlock
    /\ incr' = [incr EXCEPT !.returned = Append(@, inc[t].new[1])]
    /\ inc' = [inc EXCEPT ![t] = [pc |-> "idle", key |-> <<>>, old |-> None, new |-> None]]
    /\ UNCHANGED tree
    /\ UNCHANGED notIncrementVars

InitLockVars ==
    /\ wlock = 0
    /\ inc = [t \in IncThreads |-> [pc |-> "idle", key |-> <<>>, old |-> None, new |-> None]]
    /\ incr = [returned |-> <<>>, rivals |-> FALSE]

-----------------------------------------------------------------------------
(* SqliteTable::iter and iter_from (sqlite.rs, lines 215-243, 318-355).    *)
(* The call spawns a thread; the thread takes a read connection and runs   *)
(* the SELECT, which sees the table as it is when the statement starts     *)
(* (WAL), and sends the rows over a channel; the iterator receives them    *)
(* one by one.                                                             *)
IterValues == {<<7>>, <<8>>}

IterWriters == {1}

FromKeys == WatchPrefixes \cup {<<1, 1>>, <<3>>}

(* memcmp order of two BLOBs: ORDER BY key ASC of the rows with keys S *)
RECURSIVE OrderByKeyAsc(_)
OrderByKeyAsc(S) ==
    IF S = {} THEN <<>>
    ELSE LET k == CHOOSE x \in S : \A y \in S : x = y \/ BytesLess(x, y)
         IN  <<k>> \o OrderByKeyAsc(S \ {k})

Reverse(seq) == [i \in DOMAIN seq |-> seq[Len(seq) + 1 - i]]

(* Mutant: the comparison the TODO of line 337 names. *)
WhereBackwards_orEqual(key, from) == key = from \/ BytesLess(key, from)

(* line 338: WHERE key < ? *)
WhereBackwards(key, from) == BytesLess(key, from)

(* line 348: WHERE key >= ? *)
WhereForwards(key, from) == ~BytesLess(key, from)

(* The sequences that hold every element of S once. *)
RECURSIVE Orders(_)
Orders(S) ==
    IF S = {} THEN {<<>>}
    ELSE UNION {{<<k>> \o o : o \in Orders(S \ {k})} : k \in S}

(* The key orders the statement of the query can yield on table t.  The    *)
(* SELECT of iter (line 322) has no ORDER BY: the engine is free in the    *)
(* order (it walks the rowids, the order of the first inserts).            *)
QueryOrders(t, query) ==
    IF query.kind = "iter" THEN Orders(DOMAIN t)
    ELSE IF query.backwards
    THEN {Reverse(OrderByKeyAsc({k \in DOMAIN t : WhereBackwards(k, query.from)}))}
    ELSE {OrderByKeyAsc({k \in DOMAIN t : WhereForwards(k, query.from)})}

ItIdle ==
    [pc |-> "idle", query |-> [kind |-> "none", from |-> <<>>, backwards |-> FALSE],
     snapshot |-> <<>>, rest |-> <<>>, got |-> <<>>]

(* iter(), lines 318-325; an iterator that was used up has been dropped *)
iter ==
    /\ it.pc \in {"idle", "done"}
    /\ it' = [ItIdle EXCEPT !.pc = "spawned", !.query.kind = "iter"]
    /\ UNCHANGED notIterVars

(* iter_from(from, backwards), lines 327-355 *)
iter_from(from, backwards) ==
    /\ it.pc \in {"idle", "done"}
    /\ it' = [ItIdle EXCEPT !.pc = "spawned", !.query =
                  [kind |-> "iter_from", from |-> from, backwards |-> backwards]]
    /\ UNCHANGED notIterVars

(* lines 223-225, 234-239: the thread runs the statement *)
iter_thread_query(keys) ==
    /\ it.pc = "spawned"
    /\ keys \in QueryOrders(tree, it.query)
    /\ it' = [it EXCEPT !.pc = "running", !.snapshot = tree,
                        !.rest = [i \in DOMAIN keys |-> <<keys[i], tree[keys[i]]>>]]
    /\ UNCHANGED notIterVars

(* line 240 and 227: a row goes through the channel to the iterator *)
iter_next ==
    /\ it.pc = "running"
    /\ it.rest # <<>>
    /\ it' = [it EXCEPT !.rest = Tail(@), !.got = Append(@, Head(it.rest))]
    /\ UNCHANGED notIterVars

(* the thread has sent every row and ends; the iterator yields None *)
iter_end ==
    /\ it.pc = "running"
    /\ it.rest = <<>>
    /\ it' = [it EXCEPT !.pc = "done"]
    /\ UNCHANGED notIterVars

InitIterVars ==
    /\ it = ItIdle

-----------------------------------------------------------------------------
(* The cache of remote servers' signing keys (database/globals.rs, lines   *)
(* 136-196).  A key of servertimeout_signingkey is the server name, 0xff   *)
(* and the 8 big-endian bytes of valid_until_ts; the value is the JSON of  *)
(* the verify_keys map, held as the set of its key ids.                    *)
MaxNow == 1

MaxAdds == 3

(* The valid_until_ts of the keys a server hands out, in milliseconds. *)
Timestamps == {0, 1, 2}

(* Server names; the first is a proper string prefix of the second. *)
Origins == {<<97>>, <<97, 98>>}

(* verify_keys maps, as sets of key ids; BTreeMap::default() is {}. *)
VerifyKeys == {{1}, {2}}

(* A number of milliseconds as u64. *)
Millis(n) == <<0, 0, 0, n>>

(* sled's scan_prefix: the keys that start with prefix, in key order *)
scan_prefix(t, prefix) ==
    OrderByKeyAsc({k \in DOMAIN t : starts_with(k, prefix)})

(* lines 145-150 and 183-188: k.splitn(2, 0xff).nth(1) through             *)
(* u64_from_bytes; None stands for the two bad_database errors.            *)
valid_until_of(k) ==
    LET parts == splitn(k, 2, <<>>)
    IN  IF Len(parts) < 2 THEN None ELSE u64_from_bytes(parts[2])

(* Mutant: keys that expire at this very millisecond are still used. *)
StillValid_orEqual(valid_until, t) == ~U64Less(valid_until, t)

(* line 190: valid_until > now *)
StillValid(valid_until, t) == U64Less(t, valid_until)

(* line 152: now > valid_until *)
Outdated(valid_until, t) == U64Less(valid_until, t)

(* lines 143-155: the loop over the scan; the result is the table after    *)
(* the removals, None when an item of the scan is malformed (the removals  *)
(* made before it stay).                                                   *)
RECURSIVE remove_outdated(_, _, _)
remove_outdated(t, keys, t0) ==
    IF keys = <<>> THEN [ok |-> TRUE, table |-> t]
    ELSE LET k == Head(keys)
             valid_until == valid_until_of(k)
         IN  IF valid_until = None THEN [ok |-> FALSE, table |-> t]
             ELSE remove_outdated(IF Outdated(valid_until[1], t0)
                                  THEN delete_row(t, k) ELSE t,
                                  Tail(keys), t0)

(* lines 181-195: the loop over the scan; `from` is the key of the entry   *)
(* the keys were taken from.                                               *)
RECURSIVE first_valid(_, _, _)
first_valid(t, keys, t0) ==
    IF keys = <<>> THEN [ok |-> TRUE, from |-> None, keys |-> {}]
    ELSE LET k == Head(keys)
             valid_until == valid_until_of(k)
         IN  IF valid_until = None THEN [ok |-> FALSE, from |-> None, keys |-> {}]
             ELSE IF StillValid(valid_until[1], t0)
                  THEN [ok |-> TRUE, from |-> Some(k), keys |-> t[k].keys]
                  ELSE first_valid(t, Tail(keys), t0)

(* The key add_signing_key writes, lines 157-166. *)
signing_key_id(origin, valid_until_ts) ==
    origin \o <<SEP>> \o to_be_bytes(Millis(valid_until_ts))

add_signing_key(origin, valid_until_ts, verify_keys) ==
    LET cleaned == remove_outdated(servertimeout_signingkey,
                                   scan_prefix(servertimeout_signingkey, origin),
                                   Millis(now))
        key     == signing_key_id(origin, valid_until_ts)
        after   == IF cleaned.ok
                   THEN insert_with_guard(cleaned.table, key, [keys |-> verify_keys])
                   ELSE cleaned.table
    IN  /\ sk.adds < MaxAdds
        /\ servertimeout_signingkey' = after
        /\ sk' = [op |-> "add", origin |-> origin, ok |-> cleaned.ok,
                  from |-> Some(key), keys |-> verify_keys, adds |-> sk.adds + 1]
        /\ UNCHANGED <<now, notSigningVars>>

signing_keys_for(origin) ==
    LET found == first_valid(servertimeout_signingkey,
                             scan_prefix(servertimeout_signingkey, origin),
                             Millis(now))
    IN  /\ sk' = [op |-> "get", origin |-> origin, ok |-> found.ok,
                  from |-> found.from, keys |-> found.keys, adds |-> sk.adds]
        /\ UNCHANGED <<servertimeout_signingkey, now, notSigningVars>>

(* utils::millis_since_unix_epoch between two calls: time has passed. *)
clock_tick ==
    /\ now < MaxNow
    /\ now' = now + 1
    /\ UNCHANGED <<servertimeout_signingkey, sk, notSigningVars>>

SkNone == [op |-> "none", origin |-> <<>>, ok |-> TRUE, from |-> None, keys |-> {}, adds |-> 0]

InitSigningVars ==
    /\ servertimeout_signingkey = <<>>
    /\ now = 0
    /\ sk = SkNone

-----------------------------------------------------------------------------
(* Database::watch, the shutdown task and the WAL clean task (database.rs, *)
(* lines 810-921 and 967-1037).  The database sits in a tokio RwLock: a    *)
(* request handler holds the shared side while it runs, the WAL clean task *)
(* takes the exclusive side.  globals.rotate is a broadcast: fire          *)
(* completes every watch() future that is pending.                         *)
MaxInserts == 1

MaxWatches == 2

MaxCycles == 2

Waiters == {1, 2}

SyncUsers == {<<64, 1>>, <<64, 2>>}

SyncDevices == {<<5>>}

SyncRooms == {<<33, 1>>}

(* The source of the rotate future in a waiter's set of futures. *)
Rotate == <<"rotate", <<>>>>

(* rooms.rooms_joined(user_id): the rooms of the keys user 0xff room *)
rooms_joined(joined, user_id) ==
    {splitn(k, 2, <<>>)[2] : k \in {j \in joined : starts_with(j, user_id \o <<SEP>>)}}

(* lines 824-917: the futures Database::watch pushes, each as the tree and *)
(* the prefix it watches.                                                  *)
WatchSources(joined, user_id, device_id) ==
    LET userid_bytes == user_id
        userid_prefix == userid_bytes \o <<SEP>>
        userdeviceid_prefix == userid_prefix \o device_id \o <<SEP>>
        globaluserdata_prefix == <<SEP>> \o userid_prefix
    IN  {<<"todeviceid_events", userdeviceid_prefix>>,
         <<"userroomid_joined", userid_prefix>>,
         <<"userroomid_invitestate", userid_prefix>>,
         <<"userroomid_leftstate", userid_prefix>>,
         <<"userroomid_notificationcount", userid_prefix>>,
         <<"userroomid_highlightcount", userid_prefix>>}
        \cup UNION {LET roomid_bytes == room_id
                        roomid_prefix == roomid_bytes \o <<SEP>>
                        roomuser_prefix == roomid_prefix \o userid_prefix
                    IN  {<<"pduid_pdu", roomid_prefix>>,
                         <<"roomid_lasttypingupdate", roomid_bytes>>,
                         <<"readreceiptid_readreceipt", roomid_prefix>>,
                         <<"keychangeid_userid", roomid_prefix>>,
                         <<"roomusertype_roomuserdataid", roomuser_prefix>>}
                    : room_id \in rooms_joined(joined, user_id)}
        \cup {<<"roomusertype_roomuserdataid", globaluserdata_prefix>>,
              <<"keychangeid_userid", userid_prefix>>,
              <<"userid_lastonetimekeyupdate", userid_bytes>>,
              Rotate}

(* The keys requests write into each tree: keys of the first user in all   *)
(* trees, keys of the second user in two of them.                          *)
SyncInserts ==
    {<<t, <<64, 1>> \o <<SEP>> \o r>> :
        t \in {"userroomid_joined", "userroomid_invitestate", "userroomid_leftstate",
               "userroomid_notificationcount", "userroomid_highlightcount"},
        r \in SyncRooms}
    \cup {<<"userroomid_joined", <<64, 2>> \o <<SEP>> \o r>> : r \in SyncRooms}
    \cup {<<"todeviceid_events", u \o <<SEP>> \o d \o <<SEP, 1>>>> : u \in SyncUsers, d \in SyncDevices}
    \cup {<<"pduid_pdu", r \o <<SEP, 1>>>> : r \in SyncRooms}
    \cup {<<"roomid_lasttypingupdate", r \o <<SEP, 1>>>> : r \in SyncRooms}
    \cup {<<"readreceiptid_readreceipt", r \o <<SEP, 1>>>> : r \in SyncRooms}
    \cup {<<"keychangeid_userid", x \o <<SEP, 1>>>> : x \in {<<64, 1>>} \cup SyncRooms}
    \cup {<<"roomusertype_roomuserdataid", r \o <<SEP>> \o <<64, 1>> \o <<SEP, 1>>>> : r \in SyncRooms \cup {<<>>}}
    \cup {<<"userid_lastonetimekeyupdate", <<64, 1>>>>}

(* tokio's RwLock is fair: read() waits while a writer holds the lock or   *)
(* waits for it.                                                           *)
read_ready(g, writer_waits) == ~g.writer /\ ~writer_waits

(* Mutant: write() is granted while readers hold the lock. *)
write_ready_besideReaders(g) == ~g.writer

(* write() is granted when nobody holds the lock. *)
write_ready(g) == g.readers = {} /\ ~g.writer

(* Mutant: the watch call waits for all of its futures. *)
next_ready_all(sources, fired) == fired = sources

(* line 920, futures.next(): ready when one of the futures is *)
next_ready(sources, fired) == fired # {}

(* RotationHandler::fire: every pending watch() future completes. *)
rotate_fire(d) ==
    [w \in DOMAIN d |->
        IF d[w].pc = "waiting" /\ Rotate \in d[w].sources
        THEN [d[w] EXCEPT !.fired = @ \cup {Rotate}] ELSE d[w]]

Running == shut.pc # "exited"

(* Database::watch up to its await, called by a request handler that holds *)
(* the shared side of the lock (DatabaseGuard, lines 1050-1059).  No       *)
(* handler begins to wait once the shutdown task has fired.                *)
db_watch(w, user_id, device_id) ==
    LET sources == WatchSources(userroomid_joined, user_id, device_id)
    IN  /\ shut.pc \in {"running", "notified"}
        /\ dw[w].pc = "idle"
        /\ dwn.watches < MaxWatches
        /\ read_ready(dbguard, wal.pc = "locking")
        /\ dwn' = [dwn EXCEPT !.watches = @ + 1]
        /\ dbguard' = [dbguard EXCEPT !.readers = @ \cup {w}]
        /\ treewatchers' = treewatchers \cup {<<src[1], src[2], w>> : src \in sources \ {Rotate}}
        /\ dw' = [dw EXCEPT ![w] = [pc |-> "waiting", user |-> user_id, sources |-> sources, fired |-> {}]]
        /\ UNCHANGED <<userroomid_joined, wal, shut, notSyncVars>>

(* line 920: the await of Database::watch ends. *)
db_watch_return(w) ==
    /\ Running
    /\ dw[w].pc = "waiting"
    /\ next_ready(dw[w].sources, dw[w].fired)
    /\ dw' = [dw EXCEPT ![w].pc = "returned"]
    /\ UNCHANGED <<dbguard, userroomid_joined, treewatchers, dwn, wal, shut, notSyncVars>>

(* The handler of the waiter ends and drops its DatabaseGuard. *)
db_handler_done(w) ==
    /\ Running
    /\ dw[w].pc = "returned"
    /\ dw' = [dw EXCEPT ![w].pc = "idle"]
    /\ dbguard' = [dbguard EXCEPT !.readers = @ \ {w}]
    /\ UNCHANGED <<userroomid_joined, treewatchers, dwn, wal, shut, notSyncVars>>

(* An insert of some request into one of the trees: the senders on a       *)
(* prefix of the key leave the registry and are sent to.                   *)
db_insert(tree_name, key) ==
    LET hit == {e \in treewatchers : e[1] = tree_name /\ starts_with(key, e[2])}
    IN  /\ Running
        /\ dwn.inserts < MaxInserts
        /\ ~dbguard.writer
        /\ dwn' = [dwn EXCEPT !.inserts = @ + 1]
        /\ userroomid_joined' = IF tree_name = "userroomid_joined"
                                THEN userroomid_joined \cup {key} ELSE userroomid_joined
        /\ treewatchers' = treewatchers \ hit
        /\ dw' = [w \in Waiters |->
                    IF dw[w].pc = "waiting"
                    THEN [dw[w] EXCEPT !.fired = @ \cup {<<e[1], e[2]>> : e \in {h \in hit : h[3] = w /\ <<h[1], h[2]>> \in dw[w].sources}}]
                    ELSE dw[w]]
        /\ UNCHANGED <<dbguard, wal, shut, notSyncVars>>

(* lines 994-1001: the timer ticks or SIGHUP arrives; a cycle begins. *)
wal_wake ==
    /\ Running
    /\ wal.pc = "wait"
    /\ wal.cycles < MaxCycles
    /\ wal' = [wal EXCEPT !.pc = "fire", !.cycles = @ + 1, !.fired = FALSE, !.flushed = FALSE, !.timed_out = FALSE]
    /\ UNCHANGED <<dbguard, userroomid_joined, treewatchers, dw, dwn, shut, notSyncVars>>

(* line 1014: arc.read().await.globals.rotate.fire() *)
wal_fire ==
    /\ Running
    /\ wal.pc = "fire"
    /\ read_ready(dbguard, FALSE)
    /\ dw' = rotate_fire(dw)
    /\ wal' = [wal EXCEPT !.pc = "locking", !.fired = TRUE]
    /\ UNCHANGED <<dbguard, userroomid_joined, treewatchers, dwn, shut, notSyncVars>>

(* line 1018: arc.write() is granted within lock_timeout. *)
wal_lock ==
    /\ Running
    /\ wal.pc = "locking"
    /\ write_ready(dbguard)
    /\ dbguard' = [dbguard EXCEPT !.writer = TRUE]
    /\ wal' = [wal EXCEPT !.pc = "locked"]
    /\ UNCHANGED <<userroomid_joined, treewatchers, dw, dwn, shut, notSyncVars>>

(* lines 1020-1023: lock_timeout has passed without the lock; continue. *)
wal_lock_timeout ==
    /\ Running
    /\ wal.pc = "locking"
    /\ ~write_ready(dbguard)
    /\ wal' = [wal EXCEPT !.pc = "wait", !.timed_out = TRUE]
    /\ UNCHANGED <<dbguard, userroomid_joined, treewatchers, dw, dwn, shut, notSyncVars>>

(* line 1027: guard.flush_wal(), Ok or Err *)
wal_flush ==
    /\ Running
    /\ wal.pc = "locked"
    /\ wal' = [wal EXCEPT !.pc = "flushed", !.flushed = TRUE, !.flushes = @ + 1]
    /\ shut' = [shut EXCEPT !.flushed = shut.pc # "running"]
    /\ UNCHANGED <<dbguard, userroomid_joined, treewatchers, dw, dwn, notSyncVars>>

(* line 1032: the guard goes out of scope. *)
wal_unlock ==
    /\ Running
    /\ wal.pc = "flushed"
    /\ dbguard' = [dbguard EXCEPT !.writer = FALSE]
    /\ wal' = [wal EXCEPT !.pc = "wait"]
    /\ UNCHANGED <<userroomid_joined, treewatchers, dw, dwn, shut, notSyncVars>>

(* line 815: the Shutdown future of the request frontend resolves. *)
shutdown_notify ==
    /\ shut.pc = "running"
    /\ shut' = [shut EXCEPT !.pc = "notified"]
    /\ UNCHANGED <<dbguard, userroomid_joined, treewatchers, dw, dwn, wal, notSyncVars>>

(* line 819: db.read().await.globals.rotate.fire() *)
shutdown_fire ==
    /\ shut.pc = "notified"
    /\ read_ready(dbguard, wal.pc = "locking")
    /\ dw' = rotate_fire(dw)
    /\ shut' = [shut EXCEPT !.pc = "fired", !.waiting = {w \in Waiters : dw[w].pc = "waiting"}]
    /\ UNCHANGED <<dbguard, userroomid_joined, treewatchers, dwn, wal, notSyncVars>>

(* The process exits once the shutdown task has run and the handlers that  *)
(* were in flight have ended.                                              *)
process_exit ==
    /\ shut.pc = "fired"
    /\ \A w \in Waiters : dw[w].pc = "idle"
    /\ wal.pc = "wait"
    /\ shut' = [shut EXCEPT !.pc = "exited"]
    /\ UNCHANGED <<dbguard, userroomid_joined, treewatchers, dw, dwn, wal, notSyncVars>>

DwIdle == [pc |-> "idle", user |-> <<>>, sources |-> {}, fired |-> {}]

InitSyncTasks ==
    /\ dbguard = [readers |-> {}, writer |-> FALSE]
    /\ treewatchers = {}
    /\ dw = [w \in Waiters |-> DwIdle]
    /\ dwn = [inserts |-> 0, watches |-> 0]
    /\ wal = [pc |-> "wait", cycles |-> 0, fired |-> FALSE, flushed |-> FALSE, timed_out |-> FALSE, flushes |-> 0]
    /\ shut = [pc |-> "running", flushed |-> FALSE, waiting |-> {}]

InitSyncVars ==
    /\ InitSyncTasks
    /\ userroomid_joined = {}

-----------------------------------------------------------------------------
(* The account routes (client_server/account.rs): register, change of      *)
(* password and deactivation.  Each handler is one step.  User ids are the *)
(* localparts; passwords are numbers, 0 is the empty string.               *)
MaxRequests == 2

Usernames == {<<65>>, <<97>>, <<35>>}

Passwords == {1, 2}

DeviceIds == {<<5>>, <<6>>}

RouteRooms == {<<33>>}

(* The event type m.push_rules and the default push rules event. *)
PushRules == <<112>>

default_pushrules == [type |-> TRUE, content |-> TRUE, body |-> 0]

(* The auth blocks of requests: a dummy stage or a password stage. *)
AuthData == {[type |-> "m.login.dummy", password |-> 0]} \cup {[type |-> "m.login.password", password |-> pw] : pw \in Passwords}

(* str::to_lowercase on ASCII *)
to_lowercase(name) == [i \in DOMAIN name |-> IF name[i] \in 65..90 THEN name[i] + 32 ELSE name[i]]

(* Mutant: the name is taken as it was sent. *)
register_user_id_asSent(name) == name

(* lines 90-100: the user id is built from the lower-cased name *)
register_user_id(name) == to_lowercase(name)

(* lines 101-106: the id parses and is not historical: a-z, 0-9, ., _, =, -, / *)
valid_user_id(user_id) ==
    /\ user_id # <<>>
    /\ \A i \in DOMAIN user_id : user_id[i] \in (97..122) \cup (48..57) \cup {46, 95, 61, 45, 47}

(* utils::random_string for a session id or a token: a string not in use *)
random_string(used) == CHOOSE n \in 1..(Cardinality(used) + 1) : n \notin used

(* Users::exists *)
exists(user_id) == user_id \in DOMAIN userid_password

(* The stored form of a password: the empty string as it is, a hash else. *)
hash_password(password) == IF password = 0 THEN <<>> ELSE <<"argon2", password>>

verify_password(password, stored) == stored # <<>> /\ stored = <<"argon2", password>>

(* Users::create and Users::set_password *)
set_password(table, user_id, password) ==
    [u \in DOMAIN table \cup {user_id} |-> IF u = user_id THEN hash_password(password) ELSE table[u]]

(* Users::all_device_ids *)
all_device_ids(user_id) == {k[2] : k \in {x \in DOMAIN userdeviceid_token : x[1] = user_id}}

(* Users::remove_device on both indexes, for a set of devices of a user *)
remove_devices_forward(user_id, ids) ==
    [k \in {x \in DOMAIN userdeviceid_token : ~(x[1] = user_id /\ x[2] \in ids)} |-> userdeviceid_token[k]]

remove_devices_reverse(user_id, ids) ==
    [t \in {x \in DOMAIN token_userdeviceid : ~(token_userdeviceid[x][1] = user_id /\ token_userdeviceid[x][2] \in ids)} |-> token_userdeviceid[t]]

(* Users::find_from_token *)
find_from_token(token) == IF token \in DOMAIN token_userdeviceid THEN Some(token_userdeviceid[token]) ELSE None

(* Uiaa::try_auth for a flow of one stage: the stage must be the one of    *)
(* the flow, and a password stage must verify against the stored password. *)
try_auth(user_id, auth, stage) ==
    /\ auth.type = stage
    /\ auth.type = "m.login.password" =>
          (exists(user_id) /\ verify_password(auth.password, userid_password[user_id]))

(* Mutant: devices are removed whatever their id. *)
OtherDevice_any(id, device_id) == TRUE

(* line 256: .filter(|id| id != device_id) *)
OtherDevice(id, device_id) == id # device_id

(* Uiaa::create, called at lines 137, 243, 325: the session is kept under *)
(* (user, device, session).                                               *)
uiaa_create(sessions, user_id, device_id, session) == sessions \cup {<<user_id, device_id, session>>}

Answer(route, body, user_id, device_id, outcome, session) ==
    [n |-> rq.n + 1, route |-> route, auth |-> body.auth # None,
     name |-> IF route = "register" /\ ~body.guest THEN body.username ELSE None,
     user |-> user_id, device |-> device_id, outcome |-> outcome, session |-> session]

UsersUnchanged == UNCHANGED <<userid_password, userdeviceid_token, token_userdeviceid, deactivated, memberships, leaves, counter, accountdata>>

(* The steps 116-139, 218-245 and 300-327 share: with no auth block a      *)
(* session is minted and stored, with an auth block that try_auth does not *)
(* complete the challenge is returned.                                     *)
uiaa_challenge(route, body, user_id, device_id, stage) ==
    /\ (IF body.auth = None THEN TRUE ELSE ~try_auth(user_id, body.auth[1], stage))
    /\ IF body.auth = None
       THEN LET session == random_string({x[3] : x \in uiaa_sessions})
            IN  /\ uiaa_sessions' = uiaa_create(uiaa_sessions, user_id, device_id, session)
                /\ rq' = Answer(route, body, user_id, device_id, "Uiaa", Some(session))
       ELSE /\ UNCHANGED uiaa_sessions
            /\ rq' = Answer(route, body, user_id, device_id, "Uiaa", None)
    /\ UsersUnchanged

(* Mutant: the request goes on whatever its auth block. *)
uiaa_passed_always(body, user_id, stage) == TRUE

(* lines 127-133, 228-239, 310-321: an auth block that try_auth accepts *)
uiaa_passed(body, user_id, stage) == body.auth # None /\ try_auth(user_id, body.auth[1], stage)

(* register_route, lines 76-198.  guest_name and random_device are what    *)
(* utils::random_string returns for the name of a guest and for a device.  *)
register_route(body, guest_name, random_device) ==
    LET is_guest == body.guest
        name     == IF is_guest THEN Some(guest_name) ELSE body.username
        user_id  == IF name = None THEN <<>> ELSE register_user_id(name[1])
        fails    == IF ~allow_registration THEN "Forbidden"
                    ELSE IF name = None THEN "MissingParam"
                    ELSE IF ~valid_user_id(user_id) THEN "InvalidUsername"
                    ELSE IF exists(user_id) THEN "UserInUse"
                    ELSE "no"
        password == IF is_guest \/ body.password = None THEN 0 ELSE body.password[1]
        data     == update_rows(accountdata, counter, None, user_id, PushRules, default_pushrules)
        device_id == IF is_guest \/ body.device_id = None THEN random_device ELSE body.device_id[1]
        token    == random_string(DOMAIN token_userdeviceid)
    IN  /\ rq.n < MaxRequests
        /\ \/ /\ fails # "no"
              /\ rq' = Answer("register", body, user_id, <<>>, fails, None)
              /\ UNCHANGED uiaa_sessions
              /\ UsersUnchanged
           \/ /\ fails = "no"
              /\ uiaa_challenge("register", body, user_id, <<>>, "m.login.dummy")
           \/ /\ fails = "no"
              /\ uiaa_passed(body, user_id, "m.login.dummy")
              /\ userid_password' = set_password(userid_password, user_id, password)
              /\ counter' = data.counter
              /\ accountdata' = data.table
              /\ IF ~is_guest /\ body.inhibit_login
                 THEN /\ UNCHANGED <<userdeviceid_token, token_userdeviceid>>
                      /\ rq' = Answer("register", body, user_id, <<>>, "Ok", None)
                 ELSE /\ userdeviceid_token' = insert_with_guard(userdeviceid_token, <<user_id, device_id>>, token)
                      /\ token_userdeviceid' = insert_with_guard(token_userdeviceid, token, <<user_id, device_id>>)
                      /\ rq' = Answer("register", body, user_id, device_id, "Ok", Some(token))
              /\ UNCHANGED <<deactivated, uiaa_sessions, memberships, leaves>>
        /\ UNCHANGED <<allow_registration, notUserVars>>

(* change_password_route, lines 211-262, for the sender the token of the   *)
(* request resolves to.                                                    *)
change_password_route(token, body) ==
    LET sender_id == token_userdeviceid[token][1]
        device_id == token_userdeviceid[token][2]
        others    == {id \in all_device_ids(sender_id) : OtherDevice(id, device_id)}
    IN  /\ rq.n < MaxRequests
        /\ token \in DOMAIN token_userdeviceid
        /\ \/ uiaa_challenge("change_password", body, sender_id, device_id, "m.login.password")
           \/ /\ uiaa_passed(body, sender_id, "m.login.password")
              /\ userid_password' = set_password(userid_password, sender_id, body.new_password)
              /\ userdeviceid_token' = remove_devices_forward(sender_id, others)
              /\ token_userdeviceid' = remove_devices_reverse(sender_id, others)
              /\ rq' = Answer("change_password", body, sender_id, device_id, "Ok", Some(token))
              /\ UNCHANGED <<deactivated, uiaa_sessions, memberships, leaves, counter, accountdata>>
        /\ UNCHANGED <<allow_registration, notUserVars>>

(* deactivate_route, lines 293-366: a leave event for every room joined or *)
(* invited to, then Users::deactivate_account.                             *)
deactivate_route(token, body) ==
    LET sender_id == token_userdeviceid[token][1]
        device_id == token_userdeviceid[token][2]
        rooms     == {m \in memberships : m[1] = sender_id}
    IN  /\ rq.n < MaxRequests
        /\ token \in DOMAIN token_userdeviceid
        /\ \/ uiaa_challenge("deactivate", body, sender_id, device_id, "m.login.password")
           \/ /\ uiaa_passed(body, sender_id, "m.login.password")
              /\ leaves' = leaves \cup rooms
              /\ memberships' = memberships \ rooms
              /\ userdeviceid_token' = remove_devices_forward(sender_id, all_device_ids(sender_id))
              /\ token_userdeviceid' = remove_devices_reverse(sender_id, all_device_ids(sender_id))
              /\ deactivated' = deactivated \cup {sender_id}
              /\ rq' = Answer("deactivate", body, sender_id, device_id, "Ok", None)
              /\ UNCHANGED <<userid_password, uiaa_sessions, counter, accountdata>>
        /\ UNCHANGED <<allow_registration, notUserVars>>

(* Another route gives a user a second device (login) or a room (join or   *)
(* invite).                                                                *)
login(user_id, device_id) ==
    LET token == random_string(DOMAIN token_userdeviceid)
    IN  /\ exists(user_id)
        /\ user_id \notin deactivated
        /\ <<user_id, device_id>> \notin DOMAIN userdeviceid_token
        /\ userdeviceid_token' = insert_with_guard(userdeviceid_token, <<user_id, device_id>>, token)
        /\ token_userdeviceid' = insert_with_guard(token_userdeviceid, token, <<user_id, device_id>>)
        /\ UNCHANGED <<allow_registration, userid_password, deactivated, uiaa_sessions, memberships, leaves, rq, counter, accountdata, notUserVars>>

join(user_id, room_id) ==
    /\ exists(user_id)
    /\ user_id \notin deactivated
    /\ <<user_id, room_id>> \notin memberships
    /\ memberships' = memberships \cup {<<user_id, room_id>>}
    /\ UNCHANGED <<allow_registration, userid_password, userdeviceid_token, token_userdeviceid, deactivated, uiaa_sessions, leaves, rq, counter, accountdata, notUserVars>>

RqNone == [n |-> 0, route |-> "none", auth |-> FALSE, name |-> None, user |-> <<>>, device |-> <<>>, outcome |-> "none", session |-> None]

InitUserTables ==
    /\ userid_password = <<>>
    /\ userdeviceid_token = <<>>
    /\ token_userdeviceid = <<>>
    /\ deactivated = {}
    /\ uiaa_sessions = {}
    /\ memberships = {}
    /\ leaves = {}
    /\ rq = RqNone

InitUserVars ==
    /\ allow_registration = TRUE
    /\ InitUserTables

-----------------------------------------------------------------------------
(* Media (src/database/media.rs): the uploads.  A row of mediaid_file is   *)
(* keyed by mxc 0xff width height 0xff filename 0xff content_type, width   *)
(* and height being 0 for a file that is not a thumbnail.                  *)
MaxCreates == 2

Mxcs == {<<109>>, <<109, 120>>}

Filenames == {None, Some(<<102>>), Some(<<103>>)}

ContentTypes == {None, Some(<<116>>)}

FileBytes == {<<1>>, <<2>>}

(* 0_u32.to_be_bytes() *)
u32_zero_be_bytes == <<0, 0, 0, 0>>

(* Option::unwrap_or_default on bytes *)
unwrap_or_default(o) == IF o = None THEN <<>> ELSE o[1]

(* lines 25-37: the key Media::create writes *)
media_key(mxc, filename, content_type) ==
    mxc \o <<SEP>> \o u32_zero_be_bytes \o u32_zero_be_bytes \o <<SEP>>
        \o unwrap_or_default(filename) \o <<SEP>> \o unwrap_or_default(content_type)

(* lines 76-80: the prefix Media::get scans *)
media_prefix(mxc) == mxc \o <<SEP>> \o u32_zero_be_bytes \o u32_zero_be_bytes \o <<SEP>>

(* slice::rsplit at 0xff: the parts of s, the last one first *)
RECURSIVE rsplit(_, _, _)
rsplit(s, part, acc) ==
    IF s = <<>> THEN Append(acc, part)
    ELSE LET last == s[Len(s)]
             rest == SubSeq(s, 1, Len(s) - 1)
         IN  IF last = SEP THEN rsplit(rest, <<>>, Append(acc, part))
             ELSE rsplit(rest, <<last>> \o part, acc)

(* lines 82-111: the first row under the prefix, its content type and its  *)
(* filename read back from the key; an empty filename is None.             *)
media_get_file(t, mxc) ==
    LET rows == scan_prefix(t, media_prefix(mxc))
    IN  IF rows = <<>> THEN None
        ELSE LET key   == rows[1]
                 parts == rsplit(key, <<>>, <<>>)
                 filename_bytes == parts[2]
             IN  Some([filename |-> IF filename_bytes = <<>> THEN None ELSE Some(filename_bytes),
                       content_type |-> Some(parts[1]),
                       file |-> t[key]])

(* Media::create, lines 18-43 *)
media_create(mxc, filename, content_type, file) ==
    /\ Len(md.creates) < MaxCreates
    /\ mediaid_file' = insert_with_guard(mediaid_file, media_key(mxc, filename, content_type), file)
    /\ md' = [op |-> "create", mxc |-> mxc, result |-> None,
              creates |-> Append(md.creates, [mxc |-> mxc, filename |-> filename, content_type |-> content_type, file |-> file])]
    /\ UNCHANGED notUploadVars

(* Media::get, lines 74-115 *)
media_get(mxc) ==
    /\ md' = [md EXCEPT !.op = "get", !.mxc = mxc, !.result = media_get_file(mediaid_file, mxc)]
    /\ UNCHANGED <<mediaid_file, notUploadVars>>

MdNone == [op |-> "none", mxc |-> <<>>, result |-> None, creates |-> <<>>]

InitUploadVars == md = MdNone

-----------------------------------------------------------------------------
(* AccountData::changes_since (database/account_data.rs, lines 75-122).    *)
Sinces == {U64Zero, U64One, <<0, 0, 0, 255>>, <<0, 0, 0, 256>>, U64Max}

(* line 95: `since + 1` overflows *)
SinceOverflows(since) == since = U64Max

(* line 99: range(first_possible..), the keys from first_possible on in    *)
(* key order                                                               *)
range_from(t, first_possible) ==
    OrderByKeyAsc({k \in DOMAIN t : ~BytesLess(k, first_possible)})

(* line 101: take_while(|(k, _)| k.starts_with(&prefix)) *)
RECURSIVE take_while_prefix(_, _)
take_while_prefix(keys, prefix) ==
    IF keys = <<>> THEN <<>>
    ELSE IF ~starts_with(Head(keys), prefix) THEN <<>>
    ELSE <<Head(keys)>> \o take_while_prefix(Tail(keys), prefix)

(* lines 102-119: each row in order put into the HashMap under the type    *)
(* its key ends with; a later row replaces an earlier one of the type.     *)
RECURSIVE collect_userdata(_, _, _)
collect_userdata(t, keys, userdata) ==
    IF keys = <<>> THEN userdata
    ELSE LET k    == Head(keys)
             kind == LastSegment(k)
         IN  collect_userdata(t, Tail(keys),
                 [x \in DOMAIN userdata \cup {kind} |->
                     IF x = kind THEN t[k].json ELSE userdata[x]])

(* lines 82-121, with the value `since + 1` has *)
changes_since_from(t, room_id, user_id, since_plus_one) ==
    LET prefix         == AccountPrefix(room_id, user_id)
        first_possible == prefix \o to_be_bytes(since_plus_one)
    IN  collect_userdata(t, take_while_prefix(range_from(t, first_possible), prefix), <<>>)

(* changes_since in a build without overflow checks: since + 1 wraps *)
changes_since_ok(room_id, user_id, since) ==
    /\ cs' = [op |-> "changes_since", room |-> room_id, user |-> user_id, since |-> since,
              panicked |-> FALSE,
              result |-> changes_since_from(accountdata, room_id, user_id, WrappingInc(since))]
    /\ UNCHANGED <<stepVars, pool_readers, rl, notLateVars>>

(* changes_since in a build with overflow checks, for since = u64::MAX *)
changes_since_panic(room_id, user_id, since) ==
    /\ SinceOverflows(since)
    /\ cs' = [op |-> "changes_since", room |-> room_id, user |-> user_id, since |-> since,
              panicked |-> TRUE, result |-> <<>>]
    /\ UNCHANGED <<stepVars, pool_readers, rl, notLateVars>>

changes_since(room_id, user_id, since) ==
    changes_since_ok(room_id, user_id, since) \/ changes_since_panic(room_id, user_id, since)

CsNone == [op |-> "none", room |-> None, user |-> <<>>, since |-> U64Zero, panicked |-> FALSE, result |-> <<>>]

-----------------------------------------------------------------------------
(* Pool (database/abstraction/sqlite.rs, lines 36-120): one writer behind  *)
(* a FairMutex, the pooled readers behind a Mutex each, and spillover      *)
(* readers opened on demand.  Each try_lock is one step.                   *)
PoolReaders == {1, 2}

PoolThreads == {1, 2, 3}

(* Mutant: the guard is handed out though the mutex is held. *)
try_lock_held(holder) == TRUE

(* line 102: r.try_lock() is Some when no thread holds the mutex *)
try_lock(holder) == holder = 0

(* HoldingConn, lines 42-45. *)
FromGuard(r) == <<"FromGuard", r>>

FromOwned(t) == <<"FromOwned", t>>

(* line 100: the call begins with the first reader *)
read_lock_call(t) ==
    /\ rl[t].pc = "idle"
    /\ rl' = [rl EXCEPT ![t] = [pc |-> "scan", r |-> 1, seen |-> {}, conn |-> None]]
    /\ UNCHANGED <<stepVars, pool_readers, cs, notLateVars>>

(* lines 101-105: one pass of the loop *)
read_lock_try(t) ==
    LET r == rl[t].r
    IN  /\ rl[t].pc = "scan"
        /\ r \in PoolReaders
        /\ IF try_lock(pool_readers[r])
           THEN /\ pool_readers' = [pool_readers EXCEPT ![r] = t]
                /\ rl' = [rl EXCEPT ![t].pc = "holding", ![t].conn = Some(FromGuard(r))]
           ELSE /\ rl' = [rl EXCEPT ![t].r = r + 1, ![t].seen = @ \cup {r}]
                /\ UNCHANGED pool_readers
        /\ UNCHANGED <<stepVars, cs, notLateVars>>

(* lines 107-118: after the loop a new connection is opened *)
read_lock_spill(t) ==
    /\ rl[t].pc = "scan"
    /\ rl[t].r \notin PoolReaders
    /\ rl' = [rl EXCEPT ![t].pc = "holding", ![t].conn = Some(FromOwned(t))]
    /\ UNCHANGED <<stepVars, pool_readers, cs, notLateVars>>

(* The HoldingConn is dropped: a guard unlocks its mutex, an owned         *)
(* connection is closed.                                                   *)
drop_conn(t) ==
    /\ rl[t].pc = "holding"
    /\ pool_readers' = [r \in PoolReaders |-> IF rl[t].conn = Some(FromGuard(r)) THEN 0 ELSE pool_readers[r]]
    /\ rl' = [rl EXCEPT ![t] = [pc |-> "idle", r |-> 0, seen |-> {}, conn |-> None]]
    /\ UNCHANGED <<stepVars, cs, notLateVars>>

(* Pool::write_lock, lines 96-98, and the drop of its guard. *)
pool_write_lock(t) ==
    /\ rl[t].pc = "idle"
    /\ write_lock(wlock)
    /\ wlock' = t
    /\ rl' = [rl EXCEPT ![t].pc = "writing"]
    /\ UNCHANGED <<stepVars, pool_readers, cs, inc, incr, counterVars, watchVars, stateVars, accountVars, migrationVars, roomVars, legacyVars, mediaVars, iterVars, signingVars, syncVars, userVars, uploadVars>>

pool_write_unlock(t) ==
    /\ rl[t].pc = "writing"
    /\ wlock' = 0
    /\ rl' = [rl EXCEPT ![t].pc = "idle"]
    /\ UNCHANGED <<stepVars, pool_readers, cs, inc, incr, counterVars, watchVars, stateVars, accountVars, migrationVars, roomVars, legacyVars, mediaVars, iterVars, signingVars, syncVars, userVars, uploadVars>>

RlIdle == [pc |-> "idle", r |-> 0, seen |-> {}, conn |-> None]

(***************************************************************************)
(* register_route as the steps of one request among others.  The handler   *)
(* takes no lock of its own: between Users::exists (line 109) and          *)
(* Users::create (line 149) another request may run.                       *)
(***************************************************************************)
RegRequests == {1, 2}

RegIdle == [pc |-> "idle", user_id |-> <<>>, password |-> 0, login |-> FALSE, device_id |-> <<>>, outcome |-> "none", token |-> None]

(* lines 80-114: the early returns before UIAA *)
register_fails(body, name, user_id) ==
    IF ~allow_registration THEN "Forbidden"
    ELSE IF name = None THEN "MissingParam"
    ELSE IF ~valid_user_id(user_id) THEN "InvalidUsername"
    ELSE IF exists(user_id) THEN "UserInUse"
    ELSE "no"

(* lines 80-146 of request p: the checks, UIAA, and the values the rest of *)
(* the handler uses.                                                       *)
register_check(p, body, guest_name, random_device) ==
    LET is_guest  == body.guest
        name      == IF is_guest THEN Some(guest_name) ELSE body.username
        user_id   == IF name = None THEN <<>> ELSE register_user_id(name[1])
        fails     == register_fails(body, name, user_id)
        password  == IF is_guest \/ body.password = None THEN 0 ELSE body.password[1]
        device_id == IF is_guest \/ body.device_id = None THEN random_device ELSE body.device_id[1]
        answer(outcome) == [RegIdle EXCEPT !.pc = "done", !.user_id = user_id, !.outcome = outcome]
    IN  /\ regs[p].pc = "idle"
        /\ IF fails # "no"
           THEN /\ regs' = [regs EXCEPT ![p] = answer(fails)]
                /\ UNCHANGED uiaa_sessions
           ELSE IF body.auth = None
           THEN /\ uiaa_sessions' = uiaa_create(uiaa_sessions, user_id, <<>>, random_string({x[3] : x \in uiaa_sessions}))
                /\ regs' = [regs EXCEPT ![p] = answer("Uiaa")]
           ELSE IF ~try_auth(user_id, body.auth[1], "m.login.dummy")
           THEN /\ regs' = [regs EXCEPT ![p] = answer("Uiaa")]
                /\ UNCHANGED uiaa_sessions
           ELSE /\ regs' = [regs EXCEPT ![p] = [RegIdle EXCEPT !.pc = "checked", !.user_id = user_id,
                                                   !.password = password, !.device_id = device_id,
                                                   !.login = ~(~is_guest /\ body.inhibit_login)]]
                /\ UNCHANGED uiaa_sessions
        /\ UNCHANGED <<allow_registration, userid_password, userdeviceid_token, token_userdeviceid, deactivated, memberships, leaves, rq, counter, accountdata>>
        /\ UNCHANGED <<notRegsLate, belowUserVars>>

(* lines 149-197 of request p: Users::create, the push rules, the device *)
register_create(p) ==
    LET user_id == regs[p].user_id
        data    == update_rows(accountdata, counter, None, user_id, PushRules, default_pushrules)
        token   == random_string(DOMAIN token_userdeviceid)
    IN  /\ regs[p].pc = "checked"
        /\ userid_password' = set_password(userid_password, user_id, regs[p].password)
        /\ counter' = data.counter
        /\ accountdata' = data.table
        /\ IF regs[p].login
           THEN /\ userdeviceid_token' = insert_with_guard(userdeviceid_token, <<user_id, regs[p].device_id>>, token)
                /\ token_userdeviceid' = insert_with_guard(token_userdeviceid, token, <<user_id, regs[p].device_id>>)
                /\ regs' = [regs EXCEPT ![p].pc = "done", ![p].outcome = "Ok", ![p].token = Some(token)]
           ELSE /\ UNCHANGED <<userdeviceid_token, token_userdeviceid>>
                /\ regs' = [regs EXCEPT ![p].pc = "done", ![p].outcome = "Ok"]
        /\ UNCHANGED <<allow_registration, deactivated, uiaa_sessions, memberships, leaves, rq>>
        /\ UNCHANGED <<notRegsLate, belowUserVars>>

(***************************************************************************)
(* AccountData::update as the steps of one thread among others.  Each tree *)
(* operation (the scan of find_event, remove, update_and_fetch of the      *)
(* counter, insert) is atomic; update holds nothing between them.          *)
(***************************************************************************)
MaxRounds == 2

UpdThreads == {1, 2}

RaceTriples == {<<None, <<64>>, <<109>>>>, <<None, <<64>>, <<109, 110>>>>}

RaceValues ==
    {[type |-> TRUE, content |-> TRUE, body |-> 1],
     [type |-> TRUE, content |-> TRUE, body |-> 2],
     [type |-> TRUE, content |-> FALSE, body |-> 1]}

UpdIdle == [pc |-> "idle", n |-> 0, of |-> <<None, <<>>, <<>>>>, data |-> [type |-> FALSE, content |-> FALSE, body |-> 0],
            previous |-> None, key |-> <<>>, ok |-> FALSE]

(* line 36: self.find_event(room_id, user_id, &event_type) *)
update_find(t, triple, data) ==
    /\ upd[t].pc = "idle"
    /\ upd[t].n < MaxRounds
    /\ upd' = [upd EXCEPT ![t] = [pc |-> "found", n |-> upd[t].n + 1, of |-> triple, data |-> data,
                                  previous |-> find_event(accountdata, triple[1], triple[2], triple[3]),
                                  key |-> <<>>, ok |-> FALSE]]
    /\ UNCHANGED <<accountdata, counter>>
    /\ UNCHANGED <<notUpdLate, belowUserVars, userVars>>

(* lines 36-39: the old key, if one was found, is removed *)
update_remove(t) ==
    /\ upd[t].pc = "found"
    /\ accountdata' = IF upd[t].previous = None THEN accountdata
                      ELSE delete_row(accountdata, upd[t].previous[1])
    /\ upd' = [upd EXCEPT ![t].pc = "removed"]
    /\ UNCHANGED counter
    /\ UNCHANGED <<notUpdLate, belowUserVars, userVars>>

(* lines 41-44: the key is built around globals.next_count() *)
update_next_count(t) ==
    LET of    == upd[t].of
        count == u64_from_bytes(increment(counter)[1])[1]
    IN  /\ upd[t].pc = "removed"
        /\ ~IncrementOverflows(counter)
        /\ counter' = increment(counter)
        /\ upd' = [upd EXCEPT ![t].pc = "counted",
                              ![t].key = AccountPrefix(of[1], of[2]) \o to_be_bytes(count) \o <<SEP>> \o of[3]]
        /\ UNCHANGED accountdata
        /\ UNCHANGED <<notUpdLate, belowUserVars, userVars>>

(* lines 46-57: the check of the fields, then the insert *)
update_insert(t) ==
    LET ok == upd[t].data.type /\ upd[t].data.content
    IN  /\ upd[t].pc = "counted"
        /\ accountdata' = IF ok
                          THEN insert_with_guard(accountdata, upd[t].key, [json |-> upd[t].data, of |-> upd[t].of])
                          ELSE accountdata
        /\ upd' = [upd EXCEPT ![t].pc = "idle", ![t].ok = ok]
        /\ UNCHANGED counter
        /\ UNCHANGED <<notUpdLate, belowUserVars, userVars>>

(***************************************************************************)
(* SqliteTable::_iter_from_thread and iter_from_thread! (sqlite.rs, lines  *)
(* 215-243): the call makes a bounded channel and spawns a thread; the     *)
(* thread takes a reader with Pool::read_lock, runs the statement and      *)
(* sends the rows; the caller gets the receiving end as the iterator.      *)
(* Worker w is thread w of the pool.                                       *)
(***************************************************************************)
MaxRows == 6

(* line 219: bounded::<TupleOfBytes>(5) *)
ChannelCap == 5

Workers == {1}

WkNone == [pc |-> "none", rest |-> <<>>, chan |-> <<>>, receiver |-> "none", got |-> 0, dropped |-> {}]

(* Mutant: a send on a channel whose receiver is gone waits for room. *)
channel_send_keepsWaiting(chan, receiver) ==
    IF Len(chan) < ChannelCap THEN "Ok" ELSE "Blocked"

(* s.send(bob) on the bounded channel: Err once the receiver is dropped,   *)
(* else Ok when there is room, else the sender waits.                      *)
channel_send(chan, receiver) ==
    IF receiver = "dropped" THEN "Err"
    ELSE IF Len(chan) < ChannelCap THEN "Ok" ELSE "Blocked"

(* lines 219-229: the channel is made, the thread spawned, the receiver    *)
(* returned as the iterator                                                *)
iter_from_thread(w) ==
    /\ \/ wk[w].pc = "none"
       \/ wk[w].pc = "returned" /\ rl[w].pc = "idle" /\ wk[w].receiver = "dropped"
    /\ wk' = [wk EXCEPT ![w] = [WkNone EXCEPT !.pc = "spawned", !.receiver = "alive", !.dropped = wk[w].dropped]]
    /\ UNCHANGED <<notWkLate, notLateVars>>

(* lines 234-239: with the reader in hand the thread runs the statement,   *)
(* which has n rows                                                        *)
worker_query(w, n) ==
    /\ wk[w].pc = "spawned"
    /\ rl[w].pc = "holding"
    /\ wk' = [wk EXCEPT ![w].pc = "streaming", ![w].rest = [i \in 1..n |-> i]]
    /\ UNCHANGED <<notWkLate, notLateVars>>

(* line 240: try_for_each(|bob| s.send(bob)), a row that is sent *)
worker_send(w) ==
    /\ wk[w].pc = "streaming"
    /\ wk[w].rest # <<>>
    /\ channel_send(wk[w].chan, wk[w].receiver) = "Ok"
    /\ wk' = [wk EXCEPT ![w].chan = Append(@, Head(wk[w].rest)), ![w].rest = Tail(@)]
    /\ UNCHANGED <<notWkLate, notLateVars>>

(* line 240: the rows are all sent, or a send returns Err; the closure     *)
(* returns and its sender is dropped                                       *)
worker_return(w) ==
    /\ wk[w].pc = "streaming"
    /\ \/ wk[w].rest = <<>>
       \/ channel_send(wk[w].chan, wk[w].receiver) = "Err"
    /\ wk' = [wk EXCEPT ![w].pc = "returned"]
    /\ UNCHANGED <<notWkLate, notLateVars>>

(* line 224, the end of the statement: the HoldingConn is dropped *)
worker_release(w) ==
    /\ wk[w].pc = "returned"
    /\ drop_conn(w)

(* line 223: the thread calls engine.pool.read_lock() *)
worker_read_lock(w) ==
    /\ wk[w].pc = "spawned"
    /\ read_lock_call(w)

(* line 227, Iterator::next on the receiver: a row, or None once the channel is      *)
(* empty and its sender dropped                                            *)
iter_recv(w) ==
    /\ wk[w].receiver = "alive"
    /\ IF wk[w].chan # <<>>
       THEN wk' = [wk EXCEPT ![w].chan = Tail(@), ![w].got = @ + 1]
       ELSE /\ wk[w].pc = "returned"
            /\ wk' = [wk EXCEPT ![w].receiver = "exhausted"]
    /\ UNCHANGED <<notWkLate, notLateVars>>

(* line 227: the caller drops the iterator, used up or not; history: how the         *)
(* iterators of this caller were when they were dropped                    *)
iter_drop(w) ==
    /\ wk[w].receiver \in {"alive", "exhausted"}
    /\ wk' = [wk EXCEPT ![w].receiver = "dropped", ![w].dropped = @ \cup {wk[w].receiver}]
    /\ UNCHANGED <<notWkLate, notLateVars>>

(***************************************************************************)
(* A second SqliteTable of the same engine (sqlite.rs, lines 259-316 and   *)
(* 399-412).  Each table has its own `watchers` field; the futures are the *)
(* ones of the first table's callers.                                      *)
(***************************************************************************)
OtherKeys == {<<1>>}

(* watch_prefix on the second table *)
other_watch_prefix(f, prefix) ==
    /\ rx[f] = "unused"
    /\ other_watchers' = [p \in DOMAIN other_watchers \cup {prefix} |->
                            IF p \in DOMAIN other_watchers
                            THEN (IF p = prefix THEN Append(other_watchers[p], f)
                                                ELSE other_watchers[p])
                            ELSE <<f>>]
    /\ rx' = [rx EXCEPT ![f] = "pending"]
    /\ UNCHANGED <<other_tree, tree, watchers, ipc, ikey, triggered, seen, wokenBy, sent>>
    /\ UNCHANGED <<notOtherLate, counterVars, stateVars, accountVars, migrationVars, roomVars, legacyVars, mediaVars, lockVars, iterVars, signingVars, syncVars, userVars, uploadVars>>

(* insert on the second table, lines 259-295: the row, then the registry   *)
(* of that table                                                           *)
other_insert(key, value) ==
    LET taken == TakeWatchers(other_watchers, Triggered(other_watchers, key))
    IN  /\ write_lock(wlock)
        /\ other_tree' = insert_with_guard(other_tree, key, value)
        /\ other_watchers' = IF Triggered(other_watchers, key) = <<>> THEN other_watchers ELSE taken[1]
        /\ rx' = SendAll(rx, taken[2])
        /\ UNCHANGED <<tree, watchers, ipc, ikey, triggered, seen, wokenBy, sent>>
        /\ UNCHANGED <<notOtherLate, counterVars, stateVars, accountVars, migrationVars, roomVars, legacyVars, mediaVars, lockVars, iterVars, signingVars, syncVars, userVars, uploadVars>>

(* remove on the second table, lines 298-316 *)
other_remove(key) ==
    /\ write_lock(wlock)
    /\ other_tree' = delete_row(other_tree, key)
    /\ UNCHANGED <<other_watchers, watchVars>>
    /\ UNCHANGED <<notOtherLate, counterVars, stateVars, accountVars, migrationVars, roomVars, legacyVars, mediaVars, lockVars, iterVars, signingVars, syncVars, userVars, uploadVars>>

(***************************************************************************)
(* Ruma::from_data (ruma_wrapper.rs, lines 53-115), the data guard every   *)
(* route takes its request through.  Header and query values are byte      *)
(* strings; the access tokens of the users' tables are numbers, and the    *)
(* string of token n is the one byte n.                                    *)
(***************************************************************************)
(* "Bearer " *)
Bearer == <<66, 101, 97, 114, 101, 114, 32>>

(* "Bear", "Basic x" followed by the byte 1, "Bearer " with nothing after *)
AuthorizationHeaders ==
    {None, Some(Bearer \o <<1>>), Some(Bearer \o <<2>>), Some(Bearer), Some(<<66, 101, 97, 114>>),
     Some(<<66, 97, 115, 105, 99, 32, 120, 1>>)}

AccessTokenQueries == {None, Some(<<1>>), Some(<<2>>)}

(* The key of the users' tables a token string stands for; 0 for a string  *)
(* that is no token of the tables.                                         *)
TokenKey(token) == IF Len(token) = 1 THEN token[1] ELSE 0

(* line 69: s[7..] panics when s is shorter than 7 bytes *)
SlicePanics(header) == header # None /\ Len(header[1]) < 7

(* lines 66-70: the header without its first 7 bytes, else the query value *)
request_token(header, query) ==
    IF header # None THEN Some(SubSeq(header[1], 8, Len(header[1]))) ELSE query

RumaNone ==
    [header |-> None, query |-> None, requires_authentication |-> FALSE, body_ok |-> FALSE,
     outcome |-> "none", sender_user |-> None, sender_device |-> None]

(* from_data, lines 53-115.  body_ok: Incoming::try_from accepts the       *)
(* request (line 102).                                                     *)
from_data(header, query, requires_authentication, body_ok) ==
    LET token  == request_token(header, query)
        found  == IF token = None THEN None ELSE find_from_token(TokenKey(token[1]))
        answer(outcome, user, device) ==
            [header |-> header, query |-> query, requires_authentication |-> requires_authentication,
             body_ok |-> body_ok, outcome |-> outcome, sender_user |-> user, sender_device |-> device]
    IN  /\ ruma' = IF requires_authentication /\ SlicePanics(header) THEN answer("panic", None, None)
                   ELSE IF requires_authentication /\ token = None THEN answer("Unauthorized", None, None)
                   ELSE IF requires_authentication /\ found = None THEN answer("Unauthorized", None, None)
                   ELSE IF ~body_ok THEN answer("BadRequest", None, None)
                   ELSE IF requires_authentication THEN answer("Success", Some(found[1][1]), Some(found[1][2]))
                   ELSE answer("Success", None, None)
        /\ UNCHANGED <<notRumaLate, notLateVars>>

InitLateVars ==
    /\ ruma = RumaNone
    /\ other_tree = <<>>
    /\ other_watchers = <<>>
    /\ wk = [w \in Workers |-> WkNone]
    /\ upd = [t \in UpdThreads |-> UpdIdle]
    /\ regs = [p \in RegRequests |-> RegIdle]
    /\ rl = [t \in PoolThreads |-> RlIdle]
    /\ pool_readers = [r \in PoolReaders |-> 0]
    /\ cs = CsNone

InitExtraVars ==
    /\ InitSigningVars
    /\ InitSyncVars
    /\ InitUserVars
    /\ InitUploadVars
    /\ InitLateVars

InitMoreVars ==
    /\ InitExtraVars
    /\ InitRoomVars
    /\ InitLegacyVars
    /\ InitMediaVars
    /\ InitLockVars
    /\ InitIterVars

-----------------------------------------------------------------------------
(* The specifications. *)
InitCounterVars ==
    /\ returned = <<>>
    /\ panicked = FALSE

InitCounter ==
    /\ counter \in CounterInits
    /\ InitCounterVars
    /\ InitWatchVars
    /\ InitStateVars
    /\ InitAccountVars
    /\ version = 7
    /\ InitMigrationVars
    /\ InitMoreVars

NextCounter == \E c \in Callers : next_count(c)

SpecCounter == InitCounter /\ [][NextCounter]_vars

InitWatch ==
    /\ counter = None
    /\ InitCounterVars
    /\ InitWatchVars
    /\ InitStateVars
    /\ InitAccountVars
    /\ version = 7
    /\ InitMigrationVars
    /\ InitMoreVars

NextWatch ==
    \/ \E f \in Futures, p \in WatchPrefixes : watch_prefix(f, p)
    \/ \E t \in Threads, k \in TreeKeys, v \in TreeValues :
           insert_commit(t, k, v)
    \/ \E t \in Threads : insert_read(t)
    \/ \E t \in Threads : insert_fire(t)
    \/ \E t \in Threads, k \in TreeKeys : remove(t, k)

SpecWatch == InitWatch /\ [][NextWatch]_vars

(* The same with futures that are dropped before they complete. *)
NextCancel ==
    \/ \E f \in Futures, p \in WatchPrefixes : watch_prefix(f, p)
    \/ \E f \in Futures : drop_future(f)
    \/ \E t \in Threads, k \in TreeKeys, v \in TreeValues :
           insert_commit(t, k, v)
    \/ \E t \in Threads : insert_read(t)
    \/ \E t \in Threads : insert_fire(t)
    \/ \E t \in Threads, k \in TreeKeys : remove(t, k)

SpecCancel == InitWatch /\ [][NextCancel]_vars

InitState ==
    /\ counter = None
    /\ InitCounterVars
    /\ InitWatchVars
    /\ InitStateVars
    /\ InitAccountVars
    /\ version = 7
    /\ InitMigrationVars
    /\ InitMoreVars

NextState == \E S \in ResolvedStates : store_state(S)

SpecState == InitState /\ [][NextState]_vars

(* The same writer for a room that also has states over a third key. *)
NextStateWide == \E S \in ResolvedStates \cup WiderStates : store_state(S)

SpecStateWide == InitState /\ [][NextStateWide]_vars

InitAccount ==
    /\ counter \in {None, Some(<<0, 0, 0, 0, 0, 0, 0, 254>>)}
    /\ InitCounterVars
    /\ InitWatchVars
    /\ InitStateVars
    /\ InitAccountVars
    /\ version = 7
    /\ InitMigrationVars
    /\ InitMoreVars

NextAccount ==
    \E t \in AccountTriples, data \in AccountValues :
        update(t[1], t[2], t[3], data)

SpecAccount == InitAccount /\ [][NextAccount]_vars

InitMigration ==
    /\ counter = None
    /\ InitCounterVars
    /\ InitWatchVars
    /\ InitStateVars
    /\ InitAccountVars
    /\ version \in 0..7
    /\ InitMigrationVars
    /\ InitMoreVars

NextMigration ==
    \/ \E n \in Migrations : skip_migration(n)
    \/ \E n \in Migrations : migration_body(n)
    \/ \E n \in Migrations : migration_body_fails(n)
    \/ \E n \in Migrations : bump_database_version(n)
    \/ \E n \in Migrations : bump_database_version_fails(n)
    \/ end_of_migrations
    \/ start_again

SpecMigration == InitMigration /\ [][NextMigration]_vars

(* A database of version 6: the short room id trees are still empty. *)
InitMigrate7 ==
    /\ counter \in {None, Some(<<0, 0, 0, 0, 0, 0, 0, 254>>)}
    /\ InitCounterVars
    /\ InitWatchVars
    /\ InitStateVars
    /\ InitAccountVars
    /\ version = 6
    /\ InitMigrationVars
    /\ InitExtraVars
    /\ InitLegacyVars
    /\ InitMediaVars
    /\ InitLockVars
    /\ InitIterVars
    /\ roomid_shortstatehash \in SUBSET Rooms
    /\ roomid_shortroomid = <<>>
    /\ shortroomid_roomid = <<>>
    /\ \E rs \in SUBSET Rooms, v \in PduValues :
          pduid_pdu = [k \in {OldPduId(r, Count1) : r \in rs} |-> v]
    /\ \E rs \in SUBSET Rooms, w \in Words :
          /\ rs \subseteq {Head(splitn(k, 2, <<>>)) : k \in DOMAIN pduid_pdu}
          /\ tokenids = [k \in {OldTokenId(r, w, Count1) : r \in rs} |-> <<>>]
    /\ m7 = [pc |-> "start", todo |-> {}, room_id |-> <<>>, shortroomid |-> <<>>,
             runs |-> 0, counter0 |-> counter, pduid0 |-> pduid_pdu,
             tokenids0 |-> tokenids]

NextMigrate7 ==
    \/ migrate7_start
    \/ \E r \in Rooms : migrate7_next_count(r)
    \/ migrate7_insert_roomid_shortroomid
    \/ migrate7_insert_shortroomid_roomid
    \/ migrate7_pduids
    \/ migrate7_tokenids
    \/ migrate7_bump
    \/ migrate7_fail

SpecMigrate7 == InitMigrate7 /\ [][NextMigrate7]_vars

(* A database of version 5: the state store holds no diff rows yet. *)
InitMigrate6 ==
    /\ counter = None
    /\ InitCounterVars
    /\ InitWatchVars
    /\ InitStateVars
    /\ InitAccountVars
    /\ version = 5
    /\ InitMigrationVars
    /\ InitExtraVars
    /\ InitRoomVars
    /\ InitMediaVars
    /\ InitLockVars
    /\ InitIterVars
    /\ \E S \in [LegacyHashes -> LegacyStates] :
          stateid_shorteventid = LegacyTree(S)
    /\ m6 = [pc |-> "start", todo |-> {}, lru |-> <<>>, last_roomstates |-> <<>>,
             current_sstatehash |-> 0, current_room |-> <<>>, current_state |-> {}]

NextMigrate6 ==
    \/ migrate6_start
    \/ \E k \in LegacyHashes \X StateKeys : migrate6_entry(k)
    \/ migrate6_bump

SpecMigrate6 == InitMigrate6 /\ [][NextMigrate6]_vars

(* A database of version 2: the media directory is still empty. *)
InitMigrate3 ==
    /\ counter = None
    /\ InitCounterVars
    /\ InitWatchVars
    /\ InitStateVars
    /\ InitAccountVars
    /\ version = 2
    /\ InitMigrationVars
    /\ InitExtraVars
    /\ InitRoomVars
    /\ InitLegacyVars
    /\ InitLockVars
    /\ InitIterVars
    /\ \E ks \in SUBSET MediaKeys : mediaid_file \in [ks -> MediaContents]
    /\ files = <<>>
    /\ m3 = [pc |-> "start", todo |-> {}, snapshot |-> <<>>, key |-> <<>>,
             runs |-> 0, again |-> FALSE, before |-> mediaid_file]

NextMigrate3 ==
    \/ migrate3_start
    \/ migrate3_again
    \/ \E k \in MediaKeys : migrate3_continue(k)
    \/ \E k \in MediaKeys : migrate3_create(k)
    \/ migrate3_write_all
    \/ \E n \in 0..2 : migrate3_write_all_fails(n)
    \/ migrate3_insert
    \/ migrate3_bump
    \/ migrate3_fail

SpecMigrate3 == InitMigrate3 /\ [][NextMigrate3]_vars

(* Increments of one key that starts missing, alone or next to inserts and *)
(* removes of the same key by other calls.                                 *)
InitIncrement ==
    /\ counter = None
    /\ InitCounterVars
    /\ InitWatchVars
    /\ InitStateVars
    /\ InitAccountVars
    /\ version = 7
    /\ InitMigrationVars
    /\ InitExtraVars
    /\ InitRoomVars
    /\ InitLegacyVars
    /\ InitMediaVars
    /\ InitIterVars
    /\ wlock = 0
    /\ inc = [t \in IncThreads |-> [pc |-> "idle", key |-> <<>>, old |-> None, new |-> None]]
    /\ incr \in {[returned |-> <<>>, rivals |-> b] : b \in BOOLEAN}

rival_insert(t, value) == incr.rivals /\ insert_commit(t, IncKey, value)

rival_remove(t) == incr.rivals /\ remove(t, IncKey)

NextIncrement ==
    \/ \E t \in IncThreads : increment_lock(t, IncKey)
    \/ \E t \in IncThreads : increment_get(t)
    \/ \E t \in IncThreads : increment_insert(t)
    \/ \E t \in IncThreads : increment_return(t)
    \/ \E t \in Threads, v \in TreeValues : rival_insert(t, v)
    \/ \E t \in Threads : insert_read(t)
    \/ \E t \in Threads : insert_fire(t)
    \/ \E t \in Threads : rival_remove(t)

SpecIncrement == InitIncrement /\ [][NextIncrement]_vars

(* Scans of one tree while another call writes to it. *)
InitIter ==
    /\ counter = None
    /\ InitCounterVars
    /\ InitWatchVars
    /\ InitStateVars
    /\ InitAccountVars
    /\ version = 7
    /\ InitMigrationVars
    /\ InitMoreVars

NextIter ==
    \/ iter
    \/ \E from \in FromKeys, backwards \in BOOLEAN : iter_from(from, backwards)
    \/ \E keys \in UNION {Orders(S) : S \in SUBSET TreeKeys} : iter_thread_query(keys)
    \/ iter_next
    \/ iter_end
    \/ \E t \in IterWriters, k \in TreeKeys, v \in IterValues : insert_commit(t, k, v)
    \/ \E t \in IterWriters : insert_read(t)
    \/ \E t \in IterWriters : insert_fire(t)
    \/ \E t \in IterWriters, k \in TreeKeys : remove(t, k)

SpecIter == InitIter /\ [][NextIter]_vars

(* The signing-key cache under calls for two servers while time passes. *)
InitSigningKeys ==
    /\ counter = None
    /\ InitCounterVars
    /\ InitWatchVars
    /\ InitStateVars
    /\ InitAccountVars
    /\ version = 7
    /\ InitMigrationVars
    /\ InitMoreVars

NextSigningKeys ==
    \/ \E origin \in Origins, ts \in Timestamps, keys \in VerifyKeys :
          add_signing_key(origin, ts, keys)
    \/ \E origin \in Origins : signing_keys_for(origin)
    \/ clock_tick

SpecSigningKeys == InitSigningKeys /\ [][NextSigningKeys]_vars

(* The state the sync waiters and the tasks start in; the database may     *)
(* hold a joined room.                                                     *)
InitSync ==
    /\ counter = None
    /\ InitCounterVars
    /\ InitWatchVars
    /\ InitStateVars
    /\ InitAccountVars
    /\ version = 7
    /\ InitMigrationVars
    /\ InitRoomVars
    /\ InitLegacyVars
    /\ InitMediaVars
    /\ InitLockVars
    /\ InitIterVars
    /\ InitSigningVars
    /\ InitUserVars
    /\ InitUploadVars
    /\ InitLateVars
    /\ InitSyncTasks
    /\ userroomid_joined \in SUBSET {<<64, 1>> \o <<SEP>> \o r : r \in SyncRooms}

NextMaintenance ==
    \/ \E w \in Waiters, u \in SyncUsers, d \in SyncDevices : db_watch(w, u, d)
    \/ \E w \in Waiters : db_watch_return(w)
    \/ \E w \in Waiters : db_handler_done(w)
    \/ wal_wake
    \/ wal_fire
    \/ wal_lock
    \/ wal_lock_timeout
    \/ wal_flush
    \/ wal_unlock
    \/ shutdown_notify
    \/ shutdown_fire
    \/ process_exit

(* Sync waiters as holders of the shared lock beside the WAL clean task    *)
(* and the shutdown task.                                                  *)
SpecMaintenance == InitSync /\ [][NextMaintenance]_vars

NextDbWatch ==
    \/ \E w \in Waiters, u \in SyncUsers, d \in SyncDevices : db_watch(w, u, d)
    \/ \E w \in Waiters : db_watch_return(w)
    \/ \E w \in Waiters : db_handler_done(w)
    \/ \E i \in SyncInserts : db_insert(i[1], i[2])
    \/ shutdown_notify
    \/ shutdown_fire
    \/ process_exit

(* Sync waiters, the inserts of other requests and one fire of rotate. *)
SpecDbWatch == InitSync /\ [][NextDbWatch]_vars

(* A task that can go on does: the await of a waiter whose futures.next()  *)
(* is ready ends.                                                          *)
SpecDbWatchFair ==
    /\ SpecDbWatch
    /\ \A w \in Waiters : WF_vars(db_watch_return(w))

(* The account routes under requests of every shape, on a database that    *)
(* is empty or holds the account b with one device.                        *)
InitAccounts ==
    /\ counter = None
    /\ InitCounterVars
    /\ InitWatchVars
    /\ InitStateVars
    /\ InitAccountVars
    /\ version = 7
    /\ InitMigrationVars
    /\ InitRoomVars
    /\ InitLegacyVars
    /\ InitMediaVars
    /\ InitLockVars
    /\ InitIterVars
    /\ InitSigningVars
    /\ InitSyncVars
    /\ InitUploadVars
    /\ InitLateVars
    /\ allow_registration \in BOOLEAN
    /\ \/ InitUserTables
       \/ /\ userid_password = set_password(<<>>, <<98>>, 1)
          /\ userdeviceid_token = insert_with_guard(<<>>, <<<<98>>, <<5>>>>, 1)
          /\ token_userdeviceid = insert_with_guard(<<>>, 1, <<<<98>>, <<5>>>>)
          /\ deactivated = {}
          /\ uiaa_sessions = {}
          /\ memberships = {}
          /\ leaves = {}
          /\ rq = RqNone

RegisterBodies ==
    [guest : BOOLEAN, username : {None} \cup {Some(n) : n \in Usernames},
     password : {None, Some(1)}, auth : {None} \cup {Some(a) : a \in AuthData},
     inhibit_login : BOOLEAN, device_id : {None, Some(<<5>>)}]

PasswordBodies == [auth : {None} \cup {Some(a) : a \in AuthData}, new_password : Passwords]

DeactivateBodies == [auth : {None} \cup {Some(a) : a \in AuthData}]

NextAccounts ==
    \/ \E body \in RegisterBodies, g \in {<<103>>}, d \in {<<6>>} : register_route(body, g, d)
    \/ \E token \in DOMAIN token_userdeviceid, body \in PasswordBodies : change_password_route(token, body)
    \/ \E token \in DOMAIN token_userdeviceid, body \in DeactivateBodies : deactivate_route(token, body)
    \/ \E u \in {<<97>>, <<98>>}, d \in {<<6>>} : login(u, d)
    \/ \E u \in {<<97>>, <<98>>}, r \in RouteRooms : join(u, r)

SpecAccounts == InitAccounts /\ [][NextAccounts]_vars

(* Uploads and downloads on an empty media tree. *)
InitMedia ==
    /\ counter = None
    /\ InitCounterVars
    /\ InitWatchVars
    /\ InitStateVars
    /\ InitAccountVars
    /\ version = 7
    /\ InitMigrationVars
    /\ InitMoreVars

NextMedia ==
    \/ \E mxc \in Mxcs, filename \in Filenames, content_type \in ContentTypes, file \in FileBytes : media_create(mxc, filename, content_type, file)
    \/ \E mxc \in Mxcs : media_get(mxc)

SpecMedia == InitMedia /\ [][NextMedia]_vars

(* Updates of the account data and reads of the changes since a count. *)
NextChanges ==
    \/ \E t \in AccountTriples, data \in AccountValues : update(t[1], t[2], t[3], data)
    \/ \E t \in AccountTriples, since \in Sinces : changes_since(t[1], t[2], since)

SpecChanges == InitAccount /\ [][NextChanges]_vars

(* Three threads on a pool of two readers and the writer. *)
NextPool ==
    \E t \in PoolThreads :
        \/ read_lock_call(t)
        \/ read_lock_try(t)
        \/ read_lock_spill(t)
        \/ drop_conn(t)
        \/ pool_write_lock(t)
        \/ pool_write_unlock(t)

SpecPool == InitSigningKeys /\ [][NextPool]_vars

(* A thread inside read_lock keeps running; no thread has to drop what it  *)
(* holds.                                                                  *)
SpecPoolFair ==
    SpecPool /\ \A t \in PoolThreads : WF_vars(read_lock_try(t) \/ read_lock_spill(t))

RaceBodies ==
    [guest : BOOLEAN, username : {None} \cup {Some(n) : n \in Usernames},
     password : {None, Some(1), Some(2)}, auth : {None} \cup {Some(a) : a \in AuthData},
     inhibit_login : BOOLEAN, device_id : {None, Some(<<5>>)}]

NextRegisterRace ==
    \/ \E p \in RegRequests, body \in RaceBodies : register_check(p, body, <<102 + p>>, <<5 + p>>)
    \/ \E p \in RegRequests : register_create(p)

(* Two register requests whose steps interleave in every way. *)
SpecRegisterRace == InitAccounts /\ [][NextRegisterRace]_vars

NextUpdateRace ==
    \/ \E t \in UpdThreads, triple \in RaceTriples, data \in RaceValues : update_find(t, triple, data)
    \/ \E t \in UpdThreads : update_remove(t)
    \/ \E t \in UpdThreads : update_next_count(t)
    \/ \E t \in UpdThreads : update_insert(t)

(* Two threads in AccountData::update, their steps interleaved in every way. *)
SpecUpdateRace == InitAccount /\ [][NextUpdateRace]_vars

WorkerStep(w) ==
    \/ worker_read_lock(w)
    \/ read_lock_try(w)
    \/ read_lock_spill(w)
    \/ \E n \in 0..MaxRows : worker_query(w, n)
    \/ worker_send(w)
    \/ worker_return(w)
    \/ worker_release(w)

NextIterWorker ==
    \/ \E w \in Workers : iter_from_thread(w)
    \/ \E w \in Workers : WorkerStep(w)
    \/ \E w \in Workers : iter_recv(w)
    \/ \E w \in Workers : iter_drop(w)
    \/ \E t \in PoolThreads \ Workers : read_lock_call(t) \/ read_lock_try(t) \/ read_lock_spill(t) \/ drop_conn(t)

(* A caller's streaming iterators, one after the other, and two threads    *)
(* that read, on a pool of two readers.                                    *)
SpecIterWorker == InitSigningKeys /\ [][NextIterWorker]_vars

(* A worker thread that can take a step does; a caller is free to leave    *)
(* its iterator alone.                                                     *)
SpecIterWorkerFair == SpecIterWorker /\ \A w \in Workers : WF_vars(WorkerStep(w))

NextWatchTrees ==
    \/ \E f \in Futures, p \in WatchPrefixes : watch_prefix(f, p)
    \/ \E t \in Threads, k \in TreeKeys, v \in TreeValues : insert_commit(t, k, v)
    \/ \E t \in Threads : insert_read(t)
    \/ \E t \in Threads : insert_fire(t)
    \/ \E t \in Threads, k \in TreeKeys : remove(t, k)
    \/ \E f \in Futures, p \in {<<>>, <<1>>} : other_watch_prefix(f, p)
    \/ \E k \in OtherKeys, v \in TreeValues : other_insert(k, v)
    \/ \E k \in OtherKeys : other_remove(k)

(* Watchers and writers of two tables. *)
SpecWatchTrees == InitWatch /\ [][NextWatchTrees]_vars

NextRuma ==
    \/ \E header \in AuthorizationHeaders, query \in AccessTokenQueries, requires_authentication \in BOOLEAN, body_ok \in BOOLEAN :
           from_data(header, query, requires_authentication, body_ok)
    \/ \E u \in {<<98>>}, d \in {<<6>>} : login(u, d)

(* Requests of every shape against the tokens of the users' tables. *)
SpecRuma == InitAccounts /\ [][NextRuma]_vars

-----------------------------------------------------------------------------
(* C1: every value next_count returns is greater than every value an       *)
(* earlier call returned, whatever the counter key held at the start       *)
(* (missing, 8 bytes up to u64::MAX, or bytes of another length).          *)
C1_CounterStrictlyIncreasing ==
    \A i, j \in 1..Len(returned) :
        i < j => U64Less(returned[i].value, returned[j].value)

(* C2: when an insert returns, every future that was registered on a       *)
(* prefix of its key before the insert committed has completed, whatever   *)
(* other inserts and registrations ran between its phases.                 *)
C2_WatcherWokenByInsert ==
    [][\A t \in Threads :
         (ipc[t] = "read" /\ ipc'[t] = "idle")
            => \A f \in seen[t] : rx'[f] = "done"]_vars

(* C2 witness: a future completed by the insert that saw it registered,    *)
(* while the other thread is between the phases of its own insert.         *)
C2_Witness ==
    \E f \in Futures, t, u \in Threads :
        /\ t # u
        /\ rx[f] = "done" /\ wokenBy[f] = [by |-> t, early |-> TRUE]
        /\ ipc[u] = "read"

(* C3: a remove of a key completes every future registered on a prefix of  *)
(* that key, as an insert does.                                            *)
C3_WatcherWokenByRemove ==
    [][\A t \in Threads, k \in TreeKeys :
         remove(t, k)
            => \A f \in RegisteredOn(watchers, k) : rx'[f] = "done"]_vars

(* C4: the full state loaded for the newest hash is the state stored last. *)
C4_StateRoundTrip ==
    states # <<>> =>
        Last(load_shortstatehash_info(Len(states), statediff)).full
            = Last(states)

(* The number of layers from hash h down to its root. *)
ChainLength(h) == Len(load_shortstatehash_info(h, statediff))

(* C5: the chain of layers from any stored hash to its root has at most 4  *)
(* layers.                                                                 *)
C5_ChainDepthAtMostFour ==
    \A h \in DOMAIN statediff : ChainLength(h) <= 4

(* C5 witness: a state stored on top of a chain of 4 layers (the too-deep  *)
(* branch ran) whose own chain is again 4 layers deep.                     *)
C5_Witness ==
    /\ Len(states) >= 5
    /\ ChainLength(Len(states) - 1) = 4
    /\ ChainLength(Len(states)) = 4

(* The walk over the parents of h reaches a row with parent 0 within fuel  *)
(* steps.                                                                  *)
RECURSIVE ReachesRoot(_, _)
ReachesRoot(h, fuel) ==
    /\ h \in DOMAIN statediff
    /\ \/ statediff[h][1] = 0
       \/ fuel > 0 /\ ReachesRoot(statediff[h][1], fuel - 1)

C7_LayersAppendOnly ==
    [][states' # states =>
         /\ written' = <<Len(states') >>
         /\ Len(states') \notin DOMAIN statediff
         /\ DOMAIN statediff' = DOMAIN statediff \cup {Len(states')}
         /\ \A h \in DOMAIN statediff :
               /\ statediff'[h] = statediff[h]
               /\ Last(load_shortstatehash_info(h, statediff')).full
                     = Last(load_shortstatehash_info(h, statediff)).full]_vars

(* C7 witness: the new row was written after its diff was folded into the  *)
(* layers above (its parent is not the previous hash), and older rows      *)
(* exist.                                                                  *)
C7_Witness ==
    /\ Len(states) >= 3
    /\ written = <<Len(states)>>
    /\ statediff[Len(states)][1] # Len(states) - 1
    /\ statediff[Len(states)][1] # 0

(* The rows written for a (room, user, type). *)
RowsOf(table, triple) == {k \in DOMAIN table : table[k].of = triple}

(* C8: after a successful update for a (room, user, type) exactly one row  *)
(* of that triple is in the tree and get returns the value just written;   *)
(* the rows of the other triples are the ones that were there before; and  *)
(* no triple ever has two rows.                                            *)
C8_AccountDataLatestWins ==
    [][lastUpdate'.n # lastUpdate.n =>
         /\ lastUpdate'.ok =>
               /\ Cardinality(RowsOf(accountdata', lastUpdate'.of)) = 1
               /\ get(accountdata', lastUpdate'.of[1], lastUpdate'.of[2],
                      lastUpdate'.of[3]) = Some(lastUpdate'.data)
         /\ \A t \in AccountTriples \ {lastUpdate'.of} :
               /\ RowsOf(accountdata', t) = RowsOf(accountdata, t)
               /\ \A k \in RowsOf(accountdata, t) :
                     accountdata'[k] = accountdata[k]
         /\ \A t \in AccountTriples :
               Cardinality(RowsOf(accountdata', t)) <= 1]_vars

(* C8 witness: a successful update has replaced the row of its triple      *)
(* while rows of two other triples, one under the same prefix, are kept.   *)
C8_Witness ==
    /\ lastUpdate.ok /\ lastUpdate.n >= 3
    /\ lastUpdate.of = <<None, <<64>>, <<109>>>>
    /\ Cardinality(DOMAIN accountdata) >= 2
    /\ RowsOf(accountdata, <<None, <<64>>, <<109, 110>>>>) # {}
    /\ get(accountdata, None, <<64>>, <<109>>) = Some(lastUpdate.data)

(* What a start that begins with stored version v does when nothing       *)
(* fails: body and bump of v+1, ..., body and bump of 7.                   *)
RECURSIVE ExpectedLog(_)
ExpectedLog(v) ==
    IF v >= 7 THEN <<>>
    ELSE <<Event("body", v + 1), Event("bump", v + 1)>> \o ExpectedLog(v + 1)

IsPrefix(a, b) == Len(a) <= Len(b) /\ SubSeq(b, 1, Len(a)) = a

(* C9: a start that began with stored version v has, when it leaves the    *)
(* migration block, run exactly body v+1, bump v+1, ..., body 7, bump 7 in *)
(* this order, each once, and the stored version is 7; until then (and up  *)
(* to a failure) what it has done is a prefix of this.                     *)
C9_MigrationsInOrder ==
    /\ mpc.phase # "failed" => IsPrefix(mlog, ExpectedLog(startVersion))
    /\ mpc.phase = "failed" =>
          /\ Last(mlog) = Event("fail", mpc.at)
          /\ IsPrefix(Front(mlog), ExpectedLog(startVersion))
    /\ mpc.at = 8 => mlog = ExpectedLog(startVersion) /\ version = 7

(* C9 witness: a start from a version between 0 and 7 has left the block   *)
(* after running migrations and skipping others.                           *)
C9_Witness ==
    /\ mpc = At(8, "check")
    /\ startVersion = 3
    /\ Len(mlog) = 8
    /\ version = 7

(* C10: when a migration fails the stored version is the one from before   *)
(* that migration, not its target, and the next start runs this migration  *)
(* first.                                                                  *)
C10_FailedMigrationIsRetried ==
    /\ mpc.phase = "failed" => version = mpc.at - 1 \/ version = startVersion
    /\ mpc.phase = "failed" => version < mpc.at
    /\ (lastFailed # 0 /\ mlog # <<>>) =>
          mlog[1] \in {Event("body", lastFailed), Event("fail", lastFailed)}
    /\ (lastFailed # 0 /\ mlog = <<>>) =>
          /\ mpc.phase = "check"
          /\ mpc.at <= lastFailed
          /\ NeedsMigration(version, lastFailed)

(* C10 witness: migration 6 failed in the previous start and its body has  *)
(* run again in this one.                                                  *)
C10_Witness ==
    /\ lastFailed = 6
    /\ mlog = <<Event("body", 6)>>
    /\ version = 5

(* What one run of the rooms loop of migration 6 -> 7 that is not          *)
(* interrupted leaves behind, for every order the iterator can yield the   *)
(* rooms in.                                                               *)
RECURSIVE Migrate7Once(_, _, _, _)
Migrate7Once(todo, c, r2s, s2r) ==
    IF todo = {} THEN {[counter |-> c, r2s |-> r2s, s2r |-> s2r]}
    ELSE UNION {Migrate7Once(todo \ {r}, increment(c),
                             insert_with_guard(r2s, r, increment(c)[1]),
                             insert_with_guard(s2r, increment(c)[1], r)) :
                r \in todo}

(* C11: a migration that was interrupted after some of its writes and run  *)
(* again from its start leaves the trees as one uninterrupted run leaves    *)
(* them; stated for migration 6 -> 7: once it has completed, the counter    *)
(* and the two short room id trees are a result of one uninterrupted run    *)
(* from the contents before the migration.                                  *)
C11_MigrationIdempotent ==
    m7.pc = "done" =>
        [counter |-> counter, r2s |-> roomid_shortroomid, s2r |-> shortroomid_roomid]
            \in Migrate7Once(roomid_shortstatehash, m7.counter0, <<>>, <<>>)

(* C12: after migration 6 -> 7, interrupted and restarted or not,           *)
(* roomid_shortroomid[r] = s exactly if shortroomid_roomid[s] = r, and no   *)
(* two rooms share a short room id.                                         *)
C12_ShortRoomIdBijection ==
    m7.pc = "done" =>
        /\ \A r \in DOMAIN roomid_shortroomid :
              /\ roomid_shortroomid[r] \in DOMAIN shortroomid_roomid
              /\ shortroomid_roomid[roomid_shortroomid[r]] = r
        /\ \A sid \in DOMAIN shortroomid_roomid :
              /\ shortroomid_roomid[sid] \in DOMAIN roomid_shortroomid
              /\ roomid_shortroomid[shortroomid_roomid[sid]] = sid
        /\ \A r1, r2 \in DOMAIN roomid_shortroomid :
              roomid_shortroomid[r1] = roomid_shortroomid[r2] => r1 = r2

(* C13: after migration 6 -> 7 has completed, for every entry pduid_pdu and *)
(* tokenids had before it, the key that starts with the short room id       *)
(* exists with the same value and the old key is gone.                      *)
C13_KeysUseShortRoomId ==
    m7.pc = "done" =>
        /\ \A k \in DOMAIN m7.pduid0 :
              LET nk == NewPduId(roomid_shortroomid, k)
              IN  /\ nk # None
                  /\ nk[1] \in DOMAIN pduid_pdu
                  /\ pduid_pdu[nk[1]] = m7.pduid0[k]
                  /\ k \notin DOMAIN pduid_pdu
        /\ \A k \in DOMAIN m7.tokenids0 :
              LET nk == NewTokenId(roomid_shortroomid, k)
              IN  /\ nk # None
                  /\ nk[1] \in DOMAIN tokenids
                  /\ k \notin DOMAIN tokenids

(* C14: after migration 5 -> 6 has completed, every hash of the legacy     *)
(* tree, the last one the loop saw included, has a row in                  *)
(* shortstatehash_statediff and the state resolved from it is the set of   *)
(* entries the legacy tree holds under it.                                 *)
C14_StateStoreRebuilt ==
    m6.pc = "done" =>
        \A h \in {k[1] : k \in DOMAIN stateid_shorteventid} :
            /\ h \in DOMAIN statediff
            /\ Last(load_shortstatehash_info(h, statediff)).full
                   = LegacyState(stateid_shorteventid, h)

(* C15: when migration 2 -> 3 completes, every entry of mediaid_file is    *)
(* empty and the file of every key that had content before holds exactly   *)
(* that content; while the body runs once more after that, no step changes *)
(* the tree or a file.                                                     *)
C15_MediaMovedToFiles ==
    [][(/\ (m3'.pc = "done" /\ m3.pc # "start") =>
              (/\ DOMAIN mediaid_file' = DOMAIN m3.before
               /\ \A k \in DOMAIN mediaid_file' : mediaid_file'[k] = <<>>
               /\ \A k \in DOMAIN m3.before :
                     m3.before[k] # <<>> =>
                         (/\ get_media_file(k) \in DOMAIN files'
                          /\ files'[get_media_file(k)] = m3.before[k]))
        /\ m3.again => (mediaid_file' = mediaid_file /\ files' = files))]_vars

(* C15 witness: the migration was interrupted, completed at the next       *)
(* start, moved two contents to files, and its body has run once more to   *)
(* its end.                                                                *)
C15_Witness ==
    /\ m3.pc = "done"
    /\ m3.again
    /\ m3.runs > 0
    /\ \A k \in MediaKeys : k \in DOMAIN m3.before /\ m3.before[k] # <<>>

(* The 8 bytes of a small number. *)
U64Bytes(n) == to_be_bytes(<<0, 0, 0, n>>)

(* C16: an increment writes the successor of the value the key holds at    *)
(* the moment of the write (no other write falls between its read and its  *)
(* write) and returns what it wrote; with increments alone on a key that   *)
(* starts missing, the n calls that have returned have returned 1..n, each *)
(* once, and the stored value is the number of writes so far.              *)
C16_IncrementAtomic ==
    [][/\ \A t \in IncThreads :
             (inc[t].pc = "read" /\ inc'[t].pc = "written") =>
                 /\ get_with_guard(tree, inc[t].key) = inc[t].old
                 /\ get_with_guard(tree', inc[t].key) = inc'[t].new
       /\ ~incr.rivals =>
             /\ \A i \in DOMAIN incr'.returned : incr'.returned[i] = U64Bytes(i)
             /\ LET writes == Len(incr'.returned)
                        + Cardinality({t \in IncThreads : inc'[t].pc = "written"})
                IN  get_with_guard(tree', IncKey) =
                        IF writes = 0 THEN None ELSE Some(U64Bytes(writes))]_vars

(* C16 witness: three increments by three threads have returned while      *)
(* other calls insert the same key.                                        *)
C16_Witness ==
    /\ Len(incr.returned) = 3
    /\ incr.rivals
    /\ \E t \in Threads : ipc[t] # "idle"
    /\ get_with_guard(tree, IncKey) = Some(U64Bytes(2))

(* a <= b in lexicographic byte order: a is a prefix of b, or the first    *)
(* byte in which they differ is smaller in a.                              *)
LexLessEq(a, b) ==
    \E n \in 0..Len(a) :
        /\ n <= Len(b)
        /\ \A i \in 1..n : a[i] = b[i]
        /\ \/ n = Len(a)
           \/ n < Len(b) /\ a[n + 1] < b[n + 1]

(* The rows received are rows of the table at the time of the query, none  *)
(* twice, and their keys are exactly K.                                    *)
YieldsExactly(K) ==
    /\ {it.got[i][1] : i \in DOMAIN it.got} = K
    /\ Len(it.got) = Cardinality(K)
    /\ \A i \in DOMAIN it.got : it.got[i][2] = it.snapshot[it.got[i][1]]

C18_IterAscending ==
    (it.pc = "done" /\ it.query.kind = "iter") =>
        /\ YieldsExactly(DOMAIN it.snapshot)
        /\ \A i, j \in DOMAIN it.got :
              i < j => (LexLessEq(it.got[i][1], it.got[j][1]) /\ it.got[i][1] # it.got[j][1])

(* The futures that have a sender somewhere in the registry. *)
Registered(reg) == {f \in Futures : \E p \in DOMAIN reg : f \in Range(reg[p])}

(* C19: the removal phase of an insert leaves no registry entry for a      *)
(* prefix it found, and has called send once on every sender that was      *)
(* under such a prefix; when the insert returns, every future that was     *)
(* registered on a prefix of its key when it committed is out of the       *)
(* registry and was signalled; no sender is sent to more than once.        *)
C19_WaitersTakenAndSignalledOnce ==
    [][/\ \A t \in Threads :
             (ipc[t] = "read" /\ ipc'[t] = "idle") =>
                 /\ \A p \in Range(triggered[t]) :
                       /\ p \notin DOMAIN watchers'
                       /\ p \in DOMAIN watchers =>
                             \A f \in Range(watchers[p]) : sent'[f] = sent[f] + 1
                 /\ \A f \in seen[t] : f \notin Registered(watchers') /\ sent'[f] = 1
       /\ \A f \in Futures : sent'[f] <= 1]_vars

(* C19 witness: one insert has signalled both futures, which it saw        *)
(* registered when it committed, while the other thread is inside an       *)
(* insert of its own.                                                      *)
C19_Witness ==
    \E t, u \in Threads :
        /\ t # u
        /\ \A f \in Futures : sent[f] = 1 /\ wokenBy[f] = [by |-> t, early |-> TRUE]
        /\ ipc[u] = "committed"
        /\ watchers = <<>>

(* C20: the registry holds no sender of a future that was dropped before   *)
(* it completed.                                                           *)
C20_CancelDeregisters ==
    \A f \in Futures : rx[f] = "dropped" => f \notin Registered(watchers)

(* The valid_until of a key of the cache: its last 8 bytes. *)
ValidUntil(k) == from_be_bytes(SubSeq(k, Len(k) - 7, Len(k)))

C22_ShutdownFiresAndFlushes ==
    /\ shut.pc \in {"fired", "exited"} =>
          \A w \in Waiters : dw[w].pc = "waiting" => Rotate \in dw[w].fired
    /\ shut.pc = "exited" => shut.flushed

(* C23: in a cycle of the WAL clean task rotate has been fired when the    *)
(* task waits for the exclusive lock; flush_wal runs only with the write   *)
(* lock held and no reader in; a cycle whose lock attempt timed out has    *)
(* not flushed and has left the task at the start of its loop.             *)
C23_WalCleanCycle ==
    [][(/\ wal'.pc \in {"locking", "locked", "flushed"} => wal'.fired
        /\ wal'.flushes # wal.flushes =>
              (dbguard.writer /\ dbguard.readers = {} /\ wal.pc = "locked" /\ wal.fired)
        /\ (wal'.timed_out /\ ~wal.timed_out) =>
              (wal'.pc = "wait" /\ ~wal'.flushed /\ wal'.flushes = wal.flushes /\ ~dbguard'.writer)
        /\ wal'.timed_out => ~wal'.flushed)]_vars

(* C23 witness: the first cycle has flushed; in the second the handler of  *)
(* a waiter that rotate woke still held the shared lock when the timeout   *)
(* ran out.                                                                *)
C23_Witness ==
    /\ wal.cycles = 2
    /\ wal.flushes = 1
    /\ wal.timed_out
    /\ wal.pc = "wait"
    /\ \E w \in Waiters : dw[w].pc = "returned" /\ dw[w].fired = {Rotate} /\ w \in dbguard.readers

(* C24: a waiter whose await has not ended has every source that has not   *)
(* fired in the registry of its tree, and once one of its sources has      *)
(* fired its Database::watch call returns.                                 *)
C24_WatchCompletesOnAnySource ==
    /\ [](\A w \in Waiters : dw[w].pc = "waiting" =>
              \A src \in dw[w].sources \ (dw[w].fired \cup {Rotate}) :
                  <<src[1], src[2], w>> \in treewatchers)
    /\ \A w \in Waiters :
          (dw[w].pc = "waiting" /\ dw[w].fired # {}) ~> (dw[w].pc = "returned")

(* C24 witness: a waiter of a user that has joined a room has returned     *)
(* after one insert into userroomid_invitestate under the user's prefix,   *)
(* with all its other futures pending.                                     *)
C24_Witness ==
    \E w \in Waiters :
        /\ dw[w].pc = "returned"
        /\ dw[w].user = <<64, 1>>
        /\ dw[w].fired = {<<"userroomid_invitestate", <<64, 1, SEP>>>>}
        /\ Cardinality(dw[w].sources) = 15
        /\ shut.pc = "running"

(* The tables an account route writes when it carries out its operation. *)
NoAccountMutation ==
    UNCHANGED <<userid_password, userdeviceid_token, token_userdeviceid, deactivated, memberships, leaves, accountdata, counter>>

(* C25: a register request whose username, lower-cased, is the lower-cased *)
(* name of an account that exists fails with M_USER_IN_USE and changes     *)
(* none of the tables: no session, password, account data, device, token.  *)
C25_RegisterTakenName ==
    [][(/\ rq'.n = rq.n + 1
        /\ rq'.route = "register"
        /\ rq'.name # None
        /\ to_lowercase(rq'.name[1]) \in {to_lowercase(u) : u \in DOMAIN userid_password})
       => (/\ rq'.outcome = "UserInUse"
           /\ NoAccountMutation
           /\ UNCHANGED uiaa_sessions)]_vars

(* C25 witness: after the account a was registered, a register request for *)
(* the name A that carries an auth block was refused.                      *)
C25_Witness ==
    /\ rq.route = "register"
    /\ rq.name = Some(<<65>>)
    /\ rq.auth
    /\ rq.outcome = "UserInUse"
    /\ DOMAIN userid_password = {<<97>>}
    /\ <<<<97>>, <<5>>>> \in DOMAIN userdeviceid_token

C28_SecondCreateReplaces ==
    (/\ md.op = "get"
     /\ Len(md.creates) = 2
     /\ md.creates[1].mxc = md.mxc
     /\ md.creates[2].mxc = md.mxc)
    => (/\ md.result # None
        /\ md.result[1].file = md.creates[2].file
        /\ md.result[1].filename = md.creates[2].filename
        /\ unwrap_or_default(md.result[1].content_type) = unwrap_or_default(md.creates[2].content_type))

(* C29: every row the last call wrote with parent 0 lists as added exactly *)
(* the state that was stored and has no removed section.                   *)
C29_RootRowIsFullState ==
    \A i \in DOMAIN written :
        statediff[written[i]][1] = 0
            => ParseDiff(statediff[written[i]], 2, TRUE, {}, {}) = <<Last(states), {}>>

(* The diff of a call after it was folded into the k topmost layers of L. *)
RECURSIVE FoldedDiff(_, _, _, _)
FoldedDiff(L, added, removed, k) ==
    IF k = 0 THEN [new |-> added, removed |-> removed]
    ELSE LET d == FoldedDiff(L, added, removed, k - 1)
         IN  FoldIntoParent(L[Len(L) - k + 1], d.new, d.removed)

DiffSum(d) == Cardinality(d.new) + Cardinality(d.removed)

(* The sibling gap at level k: 2 on the initial call, the diffsum of the   *)
(* call before on a recursive one.                                         *)
SiblingGap(L, added, removed, k) ==
    IF k = 0 THEN 2 ELSE DiffSum(FoldedDiff(L, added, removed, k - 1))

(* The rule of the claim at level k, where Len(L) - k layers are left.     *)
StopsAt(L, added, removed, k) ==
    LET n == Len(L) - k
        d == DiffSum(FoldedDiff(L, added, removed, k))
        g == SiblingGap(L, added, removed, k)
    IN  \/ n = 0
        \/ /\ 1 <= n
           /\ n <= 3
           /\ d * d < 2 * g * (Cardinality(L[n].added) + Cardinality(L[n].removed))

(* The first level the rule stops at. *)
PlacementLevel(L, added, removed) ==
    CHOOSE k \in 0..Len(L) :
        /\ StopsAt(L, added, removed, k)
        /\ \A j \in 0..(k - 1) : ~StopsAt(L, added, removed, j)

(* C30: a call writes one row, for the new hash: with L the chain loaded   *)
(* for the previous hash and k the first level at which L is used up or    *)
(* 1 <= |L| - k <= 3 and diffsum * diffsum < 2 * g * p, the row holds the  *)
(* diff folded into the k topmost layers of L, and its parent is the layer *)
(* below them, or 0 when L is used up.                                     *)
C30_LayerPlacementRule ==
    [][(states' # states)
       => (LET L == IF states = <<>> THEN <<>> ELSE load_shortstatehash_info(Len(states), statediff)
               full == IF L = <<>> THEN {} ELSE Last(L).full
               added == Last(states') \ full
               removed == full \ Last(states')
               k == PlacementLevel(L, added, removed)
               d == FoldedDiff(L, added, removed, k)
               row == statediff'[Len(states')]
           IN  /\ written' = <<Len(states')>>
               /\ row[1] = (IF Len(L) = k THEN 0 ELSE L[Len(L) - k].hash)
               /\ ParseDiff(row, 2, TRUE, {}, {}) = <<d.new, IF Len(L) = k THEN {} ELSE d.removed>>)]_vars

(* C30 witness: the last diff was folded into the top layer of a chain of  *)
(* three layers and attached to the layer below it, which is not the root. *)
C30_Witness ==
    /\ Len(states) >= 4
    /\ ChainLength(Len(states) - 1) = 3
    /\ statediff[Len(states)][1] # 0
    /\ statediff[Len(states)][1] # Len(states) - 1
    /\ statediff[statediff[Len(states)][1]][1] # 0

(* The count in the key of a row of the account data. *)
RowCount(k) ==
    LET prefix == AccountPrefix(accountdata[k].of[1], accountdata[k].of[2])
    IN  from_be_bytes(SubSeq(k, Len(prefix) + 1, Len(prefix) + 8))

(* C31: a call of changes_since(room, user, since) that returns, returns   *)
(* one entry for each event type that has a row of (room, user) with a     *)
(* count greater than since, with the value of that row, and nothing else: *)
(* no row with a count up to since, no row of another room or user.        *)
C31_ChangesSinceExact ==
    [][(cs' # cs /\ ~cs'.panicked)
       => (LET rows == {k \in DOMAIN accountdata :
                           /\ accountdata[k].of[1] = cs'.room
                           /\ accountdata[k].of[2] = cs'.user
                           /\ U64Less(cs'.since, RowCount(k))}
           IN  /\ DOMAIN cs'.result = {accountdata[k].of[3] : k \in rows}
               /\ \A k \in rows : cs'.result[accountdata[k].of[3]] = accountdata[k].json)]_vars

(* C33: an update that is rejected because the value lacks a type or a     *)
(* content field leaves the row stored for its (room, user, type) in the   *)
(* tree, and get returns the same value as before the call.                *)
C33_RejectedUpdateChangesNothing ==
    [][(lastUpdate'.n # lastUpdate.n /\ ~lastUpdate'.ok)
       => (/\ RowsOf(accountdata', lastUpdate'.of) = RowsOf(accountdata, lastUpdate'.of)
           /\ get(accountdata', lastUpdate'.of[1], lastUpdate'.of[2], lastUpdate'.of[3])
                 = get(accountdata, lastUpdate'.of[1], lastUpdate'.of[2], lastUpdate'.of[3]))]_vars

(* The server an entry of the signing-key cache was stored for. *)
KeyOrigin(k) == SubSeq(k, 1, Len(k) - 9)

(* C34: signing_keys_for(origin) takes its keys only from an entry that    *)
(* was stored for exactly origin, and add_signing_key(origin, ..) deletes  *)
(* no entry of another server, also when origin is a proper prefix of      *)
(* that server's name.                                                     *)
C34_KeysOfExactOrigin ==
    [][(/\ (sk'.op = "get" /\ now' = now /\ sk'.from # None)
              => KeyOrigin(sk'.from[1]) = sk'.origin
        /\ (sk'.op = "add" /\ now' = now)
              => \A k \in DOMAIN servertimeout_signingkey :
                    KeyOrigin(k) # sk'.origin => k \in DOMAIN servertimeout_signingkey')]_vars

(* C32: read_lock never waits: a call returns by the caller's own steps,   *)
(* whatever the other threads hold.  It returns a pooled reader only by    *)
(* taking a mutex no thread held, after every reader before it was held    *)
(* by another thread when tried, and a spillover connection only after     *)
(* every pooled reader was.  No pooled reader is held by two threads, and  *)
(* at most one thread holds the writer.                                    *)
C32_ReadLockNeverWaits ==
    /\ [][\A t \in PoolThreads :
            /\ (rl[t].pc = "scan" /\ rl'[t].pc = "holding")
                  => IF rl'[t].conn = Some(FromOwned(t))
                     THEN rl[t].seen = PoolReaders
                     ELSE \E r \in PoolReaders :
                            /\ rl'[t].conn = Some(FromGuard(r))
                            /\ pool_readers[r] = 0
                            /\ pool_readers'[r] = t
                            /\ rl[t].seen = {q \in PoolReaders : q < r}
            /\ (rl[t].pc = "scan" /\ rl'[t].seen # rl[t].seen)
                  => \E r \in PoolReaders :
                        /\ rl'[t].seen = rl[t].seen \cup {r}
                        /\ pool_readers[r] \in PoolThreads \ {t}]_vars
    /\ [](/\ \A t, u \in PoolThreads, r \in PoolReaders :
                (rl[t].conn = Some(FromGuard(r)) /\ rl[u].conn = Some(FromGuard(r))) => t = u
          /\ \A t, u \in PoolThreads :
                (rl[t].pc = "writing" /\ rl[u].pc = "writing") => (t = u /\ wlock = t))
    /\ \A t \in PoolThreads : (rl[t].pc = "scan") ~> (rl[t].pc = "holding")

(* C32 witness: both pooled readers are held by two threads and the third  *)
(* thread, which found both held, holds a spillover connection.            *)
C32_Witness ==
    /\ rl[1].conn = Some(FromGuard(1))
    /\ rl[2].conn = Some(FromGuard(2))
    /\ rl[3].conn = Some(FromOwned(3))
    /\ pool_readers = <<1, 2>>

(* C35: a start whose migrations all succeed, or that finds version 7,     *)
(* gets past the migration block to the statements that clear presence,    *)
(* start the handlers and return the handle: it does not end in a panic    *)
(* at the end of the block.                                                *)
C35_StartupCompletes == mpc # At(8, "panic")

-----------------------------------------------------------------------------
(* C36: of two register requests for the same user id at most one is       *)
(* answered with success.                                                  *)
C36_OneRegistrationWins ==
    \A p, q \in RegRequests :
        (p # q /\ regs[p].outcome = "Ok" /\ regs[q].outcome = "Ok") => regs[p].user_id # regs[q].user_id

-----------------------------------------------------------------------------
(* C37: when no update is under way and the last updates of two threads    *)
(* were for the same (room, user, type) and both succeeded, the triple has *)
(* exactly one row, the one with the greater count; and no triple has two  *)
(* rows.                                                                   *)
C37_ConcurrentUpdatesLeaveOneRow ==
    (\A t \in UpdThreads : upd[t].pc = "idle") =>
        /\ \A triple \in RaceTriples : Cardinality(RowsOf(accountdata, triple)) <= 1
        /\ \A t, u \in UpdThreads :
              (t # u /\ upd[t].ok /\ upd[u].ok /\ upd[t].of = upd[u].of /\ BytesLess(upd[t].key, upd[u].key))
                  => RowsOf(accountdata, upd[u].of) = {upd[u].key}

-----------------------------------------------------------------------------
(* The worker of iterator w has ended and holds no connection. *)
Released(w) == wk[w].pc = "returned" /\ rl[w].pc = "idle" /\ rl[w].conn = None

(* Every row of the statement of iterator w has been received. *)
AllConsumed(w) == wk[w].pc = "streaming" /\ wk[w].rest = <<>> /\ wk[w].chan = <<>>

(* C38: a worker holds a reader only between its read_lock and the end of  *)
(* its closure, a pooled reader it holds is locked in its name, and once   *)
(* every row has been received or the iterator has been dropped the worker *)
(* ends and releases its reader.                                           *)
C38_WorkerReleasesReader ==
    /\ [](\A w \in Workers :
            /\ rl[w].conn # None => wk[w].pc \in {"spawned", "streaming", "returned"}
            /\ \A r \in PoolReaders : rl[w].conn = Some(FromGuard(r)) => pool_readers[r] = w
            /\ wk[w].receiver = "exhausted" => wk[w].pc = "returned" /\ wk[w].rest = <<>>)
    /\ \A w \in Workers : (AllConsumed(w) \/ wk[w].receiver = "dropped") ~> Released(w)

(* C38 witness: the caller has dropped an iterator it had used up and now  *)
(* one it had taken a row from, whose worker had rows left to send, more   *)
(* than the channel holds in all; that worker has ended and released its   *)
(* reader, and the pooled readers are now with the other threads.          *)
C38_Witness ==
    /\ wk[1].dropped = {"alive", "exhausted"}
    /\ wk[1].receiver = "dropped" /\ wk[1].got > 0
    /\ Len(wk[1].rest) + Len(wk[1].chan) + wk[1].got > ChannelCap /\ wk[1].rest # <<>>
    /\ Released(1)
    /\ pool_readers = <<2, 3>>

-----------------------------------------------------------------------------
(* Future f is pending and registered under prefix p in registry reg. *)
WaitsOn(reg, r, f, p) == p \in DOMAIN reg /\ f \in Range(reg[p]) /\ r[f] = "pending"

(* C39: a future that is pending and registered under a prefix P of the    *)
(* first table is still so after every step, but the step in which an      *)
(* insert of that table whose key starts with P sends to the senders it    *)
(* has collected.                                                          *)
C39_WokenOnlyByMatchingInsert ==
    [][\A f \in Futures, p \in WatchPrefixes :
          (WaitsOn(watchers, rx, f, p) /\ ~WaitsOn(watchers', rx', f, p))
              => \E t \in Threads : /\ ipc[t] = "read" /\ ipc'[t] = "idle"
                                    /\ starts_with(ikey[t], p)]_vars

(* C39 witness: future 1 waits on <<1, 2>> in the first table after        *)
(* inserts of the keys <<1>> and <<2>> there, and after an insert into the *)
(* second table that woke future 2, which waited on the same bytes there.  *)
C39_Witness ==
    /\ WaitsOn(watchers, rx, 1, <<1, 2>>)
    /\ DOMAIN tree = {<<1>>, <<2>>}
    /\ \A t \in Threads : ipc[t] = "idle"
    /\ rx[2] = "done" /\ sent[2] = 0
    /\ DOMAIN other_tree = {<<1>>}

-----------------------------------------------------------------------------
(* The token a request presents: what follows the first 7 bytes ("Bearer ") *)
(* of its Authorization header, none when the header is shorter than that; *)
(* without the header, the access_token of its query.                      *)
PresentedToken(q) ==
    IF q.header = None THEN q.query
    ELSE IF Len(q.header[1]) >= 7 THEN Some(SubSeq(q.header[1], 8, Len(q.header[1])))
    ELSE None

(* C40: on an endpoint that requires authentication a request with no      *)
(* token, or with a token that find_from_token does not know, is answered  *)
(* with 401 Unauthorized; and a request that reaches the handler presented *)
(* a token, and sender_user and sender_device are the pair find_from_token *)
(* returns for it.                                                         *)
C40_HandlerOnlyWithValidToken ==
    [][(ruma' # ruma /\ ruma'.requires_authentication) =>
          LET q     == ruma'
              token == PresentedToken(q)
              found == IF token = None THEN None ELSE find_from_token(TokenKey(token[1]))
          IN  /\ found = None => q.outcome = "Unauthorized"
              /\ q.outcome = "Success" =>
                    /\ found # None
                    /\ q.sender_user = Some(found[1][1])
                    /\ q.sender_device = Some(found[1][2])]_vars

====
